---- MODULE Spec2Model ----
(***************************************************************************)
(* libbeaglebone: GPIO, PWM and ADC handles over sysfs attribute files,    *)
(* SPI, I2C and UART handles over character devices.                       *)
(*                                                                         *)
(* Text is a sequence of one-character strings.  A path is the sequence of *)
(* the pieces of the format! call that builds it, so that the formatted    *)
(* number is a piece of its own.  The filesystem is the environment: `fs`  *)
(* maps each existing file to its content, `dirs` is the set of existing   *)
(* sysfs directories.  Every open and every transfer can fail (the `fault` *)
(* parameter of an operation is the environment's choice).                 *)
(***************************************************************************)
EXTENDS Integers, Sequences, FiniteSets, TLC

VARIABLES fs, dirs, gpio, pwm, adc, last, prev, keepPrev, aborted, lastSetPeriod,
          spi, transfer, i2c, uart, dev, openFile, log, logCap, fds, racers

vars == <<fs, dirs, gpio, pwm, adc, last, prev, keepPrev, aborted, lastSetPeriod,
          spi, transfer, i2c, uart, dev, openFile, log, logCap, fds, racers>>

\* the handles on the character devices, the devices behind them, and the
\* File a caller holds open
chardev == <<spi, transfer, i2c, uart, dev, openFile>>

\* the handles on sysfs and the sysfs tree
sysfs == <<fs, dirs, gpio, pwm, adc, lastSetPeriod>>

\* what is kept of the calls that returned
history == <<last, prev, keepPrev, log, logCap, fds>>

(***************************************************************************)
(* Bounds                                                                  *)
(***************************************************************************)
\* longest content an outside actor puts into an attribute file
MaxLen == 2

\* most bytes waiting in a serial port
MaxQueue == 2

\* calls kept where export and unexport by several actors are followed
ReprobeLen == 3

\* calls kept where the writes of one GPIO handle are followed
OrderLen == 5

\* characters an outside actor can put into an attribute file
Alphabet == {"0", "1", "\n", "x"}

\* characters of the levels a value file shows
LevelAlphabet == {"0", "1", "\n"}

(***************************************************************************)
(* Text                                                                    *)
(***************************************************************************)
DigitChars == <<"0", "1", "2", "3", "4", "5", "6", "7", "8", "9">>

Whitespace == {" ", "\n", "\t", "\r"}

\* u8/u16/u32 Display: the decimal digits, most significant first
RECURSIVE to_string(_)
to_string(n) ==
  IF n < 10 THEN <<DigitChars[n + 1]>>
  ELSE to_string(n \div 10) \o <<DigitChars[(n % 10) + 1]>>

DigitValue(c) == CHOOSE d \in 0..9 : DigitChars[d + 1] = c

IsDigit(c) == \E d \in 0..9 : DigitChars[d + 1] = c

RECURSIVE TrimStart(_)
TrimStart(s) ==
  IF s # <<>> /\ Head(s) \in Whitespace THEN TrimStart(Tail(s)) ELSE s

RECURSIVE TrimEnd(_)
TrimEnd(s) ==
  IF s # <<>> /\ s[Len(s)] \in Whitespace
  THEN TrimEnd(SubSeq(s, 1, Len(s) - 1)) ELSE s

\* str::trim
Trim(s) == TrimEnd(TrimStart(s))

\* all texts over Alphabet of length at most MaxLen
Texts == UNION {[1..n -> Alphabet] : n \in 0..MaxLen}

LevelTexts == UNION {[1..n -> LevelAlphabet] : n \in 0..MaxLen}

(***************************************************************************)
(* f32 arithmetic.  A finite f32 is [s, m, e] with value (-1)^s * m * 2^e, *)
(* m = 0 or 2^23 <= m < 2^24; every operation rounds to nearest, ties to   *)
(* even.  Products of two mantissas are carried in two 24-bit limbs.       *)
(***************************************************************************)
MantBits == 24

Two23 == 8388608

Two24 == 16777216

RECURSIVE BitLen(_)
BitLen(n) == IF n = 0 THEN 0 ELSE 1 + BitLen(n \div 2)

F32(s, m, e) == [s |-> s, m |-> m, e |-> e]

RoundNearestEven(q, r, half) ==
  IF r > half \/ (r = half /\ q % 2 = 1) THEN q + 1 ELSE q

Renorm(s, m, e) == IF m = Two24 THEN F32(s, Two23, e + 1) ELSE F32(s, m, e)

\* `n as f32` for an unsigned integer n
F32FromNat(n) ==
  LET len == BitLen(n)
      k == len - MantBits
  IN IF n = 0 THEN F32(0, 0, 0)
     ELSE IF k <= 0 THEN F32(0, n * 2^(-k), k)
     ELSE Renorm(0, RoundNearestEven(n \div 2^k, n % 2^k, 2^(k - 1)), k)

\* the f32 literal or argument n / 2^k, negative when neg
F32Lit(neg, n, k) ==
  LET x == F32FromNat(n)
  IN F32(IF neg THEN 1 ELSE 0, x.m, IF x.m = 0 THEN 0 ELSE x.e - k)

XorSign(a, b) == (a.s + b.s) % 2

F32Mul(a, b) ==
  LET ah == a.m \div 4096
      al == a.m % 4096
      bh == b.m \div 4096
      bl == b.m % 4096
      mid == ah * bl + al * bh
      lsum == al * bl + (mid % 4096) * 4096
      L == lsum % Two24
      H == ah * bh + (mid \div 4096) + (lsum \div Two24)
      e == a.e + b.e
  IN IF a.m = 0 \/ b.m = 0 THEN F32(XorSign(a, b), 0, 0)
     ELSE IF H >= Two23
     THEN Renorm(XorSign(a, b), RoundNearestEven(H, L, Two23), e + 24)
     ELSE Renorm(XorSign(a, b),
                 RoundNearestEven(2 * H + (L \div Two23), L % Two23, Two23 \div 2),
                 e + 23)

\* steps more quotient bits of r / d after the bits in q
RECURSIVE LongDiv(_, _, _, _)
LongDiv(q, r, d, steps) ==
  IF steps = 0 THEN <<q, r>>
  ELSE IF 2 * r >= d THEN LongDiv(2 * q + 1, 2 * r - d, d, steps - 1)
  ELSE LongDiv(2 * q, 2 * r, d, steps - 1)

\* a / b, b nonzero
F32Div(a, b) ==
  LET big == a.m >= b.m
      qr == IF big THEN LongDiv(1, a.m - b.m, b.m, 23) ELSE LongDiv(0, a.m, b.m, 24)
      e == a.e - b.e - (IF big THEN 23 ELSE 24)
  IN IF a.m = 0 THEN F32(XorSign(a, b), 0, 0)
     ELSE Renorm(XorSign(a, b), RoundNearestEven(qr[1], 2 * qr[2], b.m), e)

\* the integer part of |x|
Magnitude(x) ==
  IF x.e >= 0 THEN x.m * 2^(x.e)
  ELSE IF -x.e >= MantBits THEN 0
  ELSE x.m \div 2^(-x.e)

\* `x as u32`: toward zero; below zero the cast saturates to 0 (rustc since
\* 1.45, and the VCVT instruction of the ARM target before that)
F32AsU32(x) == IF x.s = 1 THEN 0 ELSE Magnitude(x)

(***************************************************************************)
(* pins.rs                                                                 *)
(***************************************************************************)
GpioPinIds ==
  {38, 39, 34, 35, 66, 67, 69, 68, 45, 44, 23, 26, 47, 46, 27, 65, 22, 63,
   62, 37, 36, 33, 32, 61, 86, 88, 87, 89, 10, 11, 9, 81, 8, 80, 78, 79, 76,
   77, 74, 75, 72, 73, 70, 71, 30, 60, 31, 40, 48, 51, 4, 5, 3, 2, 49, 15,
   117, 14, 125, 123, 121, 122, 120, 20, 7}

AinOffset == 1000

AinPinIds == {AinOffset + k : k \in 0..7}

Pin == GpioPinIds \cup AinPinIds

\* `pin as u8`, `pin as u16`
AsU8(n) == n % 256

AsU16(n) == n % 65536

(***************************************************************************)
(* Paths                                                                   *)
(***************************************************************************)
GpioExportFile == <<"/sys/class/gpio/export">>

GpioUnexportFile == <<"/sys/class/gpio/unexport">>

GpioDir(n) == <<"/sys/class/gpio/gpio", to_string(n)>>

GpioDirectionFile(n) == <<"/sys/class/gpio/gpio", to_string(n), "/direction">>

GpioValueFile(n) == <<"/sys/class/gpio/gpio", to_string(n), "/value">>

PwmExportFile(c) == <<"/sys/class/pwm/pwmchip", to_string(c), "/export">>

PwmUnexportFile(c) == <<"/sys/class/pwm/pwmchip", to_string(c), "/unexport">>

PwmDir(c, n) == <<"/sys/class/pwm/pwmchip", to_string(c), "/pwm", to_string(n)>>

PwmPeriodFile(c, n) == PwmDir(c, n) \o <<"/period">>

PwmDutyCycleFile(c, n) == PwmDir(c, n) \o <<"/duty_cycle">>

PwmEnableFile(c, n) == PwmDir(c, n) \o <<"/enable">>

AdcRawFile(n) == <<"/sys/bus/iio/devices/iio:device0/in_voltage", to_string(n), "_raw">>

SpiDevFile(n) == <<"/dev/spidev", to_string(n), ".0">>

I2cDevFile(n) == <<"/dev/i2c-", to_string(n)>>

UartDevFile(n) == <<"/dev/ttyO", to_string(n)>>

\* the directory an attribute file lives in
ParentDir(path) == SubSeq(path, 1, Len(path) - 1)

(***************************************************************************)
(* The record of one call: who made it, its argument, its result, and the  *)
(* I/O it issued, in order.  `last` is the latest call; `prev` is the one  *)
(* before it where the specification keeps two calls (keepPrev).  Where    *)
(* the specification keeps a history (logCap > 0), `log` is the sequence   *)
(* of the calls that returned Ok and of the other actors' steps, and the   *)
(* run ends when logCap of them are kept (of the calls of two racing        *)
(* handles the log keeps those that failed as well).  `fds` is the set of descriptors  *)
(* that are open between the calls: who opened each, on what, and how.     *)
(***************************************************************************)
Ev(call, path, data, ok) == [call |-> call, path |-> path, data |-> data, ok |-> ok]

Call(who, op, arg, res, val, io) ==
  [who |-> who, op |-> op, arg |-> arg, res |-> res, val |-> val, io |-> io]

NoCall == Call("none", "none", "none", "none", "none", <<>>)

\* the write_all events of a call
Writes(c) == SelectSeq(c.io, LAMBDA e : e.call = "write_all")

\* the files a call opened or created
Opens(c) == SelectSeq(c.io, LAMBDA e : e.call \in {"create", "open"})

Reads(c) == SelectSeq(c.io, LAMBDA e : e.call = "read_to_string")

Probes(c) == SelectSeq(c.io, LAMBDA e : e.call = "exists")

Faults == {"none", "open", "xfer"}

\* an open descriptor
Fd(who, path, mode) == [who |-> who, path |-> path, mode |-> mode]

\* File::create opens for writing, File::open for reading, and
\* OpenOptions::new().read(true).write(true).open() for both
ModeOf(call) ==
  IF call = "create" THEN "w" ELSE IF call = "open" THEN "r" ELSE "rw"

\* the File goes out of scope: its descriptor is closed
Close(path) == Ev("close", path, <<>>, TRUE)

\* the descriptors open after the I/O of a call: an open that went through
\* adds one, a close takes it away
RECURSIVE Settle(_, _, _)
Settle(held, who, io) ==
  IF io = <<>> THEN held
  ELSE LET e == Head(io)
       IN Settle(IF e.call \in {"create", "open", "open_rw"} /\ e.ok
                 THEN held \cup {Fd(who, e.path, ModeOf(e.call))}
                 ELSE IF e.call = "close"
                 THEN {d \in held : ~(d.who = who /\ d.path = e.path)}
                 ELSE held,
                 who, Tail(io))

\* the two handles that run in two threads
Racers == {"a", "b"}

\* a call returns
Return(c) ==
  /\ last' = c
  /\ fds' = Settle(fds, c.who, c.io)
  /\ prev' = IF keepPrev THEN last ELSE prev
  /\ logCap > 0 => Len(log) < logCap
  /\ log' = IF logCap > 0 /\ (c.res \in {"Ok", "none"} \/ c.who \in Racers)
            THEN Append(log, c) ELSE log
  /\ UNCHANGED <<keepPrev, logCap>>

\* a call that runs from its start to its end in one step; the calls that
\* are under way in other threads stay where they are
Record(c) == Return(c) /\ UNCHANGED racers

(***************************************************************************)
(* util.rs                                                                 *)
(***************************************************************************)
\* File::create / File::open on a sysfs path: the file must be there
CanOpen(fsys, path, fault) == path \in DOMAIN fsys /\ fault # "open"

\* a file opened for appending instead of created
AppendAndWrite(fsys, path, data) == [fsys EXCEPT ![path] = fsys[path] \o data]

\* File::create truncates, write_all replaces the content
CreateAndWrite(fsys, path, data) == [fsys EXCEPT ![path] = data]

\* impl Writeable for &str
write_file(fsys, path, data, fault) ==
  IF ~CanOpen(fsys, path, fault)
  THEN [ok |-> FALSE, fs |-> fsys, io |-> <<Ev("create", path, <<>>, FALSE)>>]
  ELSE IF fault = "xfer"
  THEN [ok |-> FALSE, fs |-> [fsys EXCEPT ![path] = <<>>],
        io |-> <<Ev("create", path, <<>>, TRUE), Ev("write_all", path, data, FALSE),
                 Close(path)>>]
  ELSE [ok |-> TRUE, fs |-> CreateAndWrite(fsys, path, data),
        io |-> <<Ev("create", path, <<>>, TRUE), Ev("write_all", path, data, TRUE),
                 Close(path)>>]

\* impl Readable for &str
read_file(fsys, path, fault) ==
  IF ~CanOpen(fsys, path, fault)
  THEN [ok |-> FALSE, text |-> <<>>, io |-> <<Ev("open", path, <<>>, FALSE)>>]
  ELSE IF fault = "xfer"
  THEN [ok |-> FALSE, text |-> <<>>,
        io |-> <<Ev("open", path, <<>>, TRUE), Ev("read_to_string", path, <<>>, FALSE),
                 Close(path)>>]
  ELSE [ok |-> TRUE, text |-> fsys[path],
        io |-> <<Ev("open", path, <<>>, TRUE), Ev("read_to_string", path, <<>>, TRUE),
                 Close(path)>>]

(***************************************************************************)
(* The kernel's side of export and unexport                                *)
(***************************************************************************)
IsDecimal(s) == s # <<>> /\ \A i \in 1..Len(s) : IsDigit(s[i])

RECURSIVE ParseDecimal(_)
ParseDecimal(s) ==
  IF s = <<>> THEN 0
  ELSE 10 * ParseDecimal(SubSeq(s, 1, Len(s) - 1)) + DigitValue(s[Len(s)])

\* add the files `files` (path -> content) to fsys
AddFiles(fsys, files) ==
  [p \in DOMAIN fsys \cup DOMAIN files |->
     IF p \in DOMAIN files THEN files[p] ELSE fsys[p]]

\* drop every file under directory d
DropDir(fsys, d) ==
  [p \in {q \in DOMAIN fsys : ParentDir(q) # d} |-> fsys[p]]

GpioAttributes(n) ==
  (GpioDirectionFile(n) :> <<"i", "n", "\n">>) @@ (GpioValueFile(n) :> <<"0", "\n">>)

PwmAttributes(c, n) ==
  (PwmPeriodFile(c, n) :> <<"0", "\n">>) @@ (PwmDutyCycleFile(c, n) :> <<"0", "\n">>)
    @@ (PwmEnableFile(c, n) :> <<"0", "\n">>)

\* the kernel creates the directory the written number names
KernelGpioExport(data) ==
  /\ dirs' = dirs \cup {GpioDir(ParseDecimal(data))}
  /\ fs' = AddFiles(fs, GpioAttributes(ParseDecimal(data)))

KernelGpioUnexport(data) ==
  /\ dirs' = dirs \ {GpioDir(ParseDecimal(data))}
  /\ fs' = DropDir(fs, GpioDir(ParseDecimal(data)))

KernelPwmExport(c, data) ==
  /\ dirs' = dirs \cup {PwmDir(c, ParseDecimal(data))}
  /\ fs' = AddFiles(fs, PwmAttributes(c, ParseDecimal(data)))

KernelPwmUnexport(c, data) ==
  /\ dirs' = dirs \ {PwmDir(c, ParseDecimal(data))}
  /\ fs' = DropDir(fs, PwmDir(c, ParseDecimal(data)))

(***************************************************************************)
(* gpio.rs                                                                 *)
(***************************************************************************)
\* GPIO::new that keeps the identifier as wide as the enum has it
GPIO_newWide(pin) ==
  [pin |-> pin, pin_num |-> pin, pin_path |-> GpioDir(pin)]

\* `pin` remembers the Pin the handle was made from; it is not a field of
\* the struct
GPIO_new(pin) ==
  [pin |-> pin, pin_num |-> AsU8(pin), pin_path |-> GpioDir(AsU8(pin))]

\* GPIO::new as a call: it builds the struct and touches nothing
GPIO_make(pin) ==
  /\ ~aborted
  /\ gpio' = GPIO_new(pin)
  /\ Record(Call("gpio", "new", pin, "Ok", "none", <<>>))
  /\ UNCHANGED <<fs, dirs, pwm, adc, aborted, lastSetPeriod, chardev>>

\* File::create(control)?.write_all(data)? of set_export
export_write(control, data, fault) ==
  IF fault = "open"
  THEN [ok |-> FALSE, io |-> <<Ev("create", control, <<>>, FALSE)>>]
  ELSE [ok |-> fault # "xfer",
        io |-> <<Ev("create", control, <<>>, TRUE),
                 Ev("write_all", control, data, fault # "xfer"), Close(control)>>]

\* set_export without the probe on the export side
ExportBranchBlindExport(state, exists) ==
  IF state = "Exported" THEN "export"
  ELSE IF state = "Unexported" /\ exists THEN "unexport"
  ELSE "nothing"

\* set_export without the probe on the unexport side
ExportBranchBlindUnexport(state, exists) ==
  IF state = "Exported" /\ ~exists THEN "export"
  ELSE IF state = "Unexported" THEN "unexport"
  ELSE "nothing"

\* set_export that trusts what the handle's last set_export left, where
\* there was one, instead of the probe
ExportBranchCached(state, exists) ==
  LET mine == SelectSeq(log, LAMBDA c : c.op = "set_export")
      cached == IF mine = <<>> THEN exists ELSE mine[Len(mine)].arg = "Exported"
  IN IF state = "Exported" /\ ~cached THEN "export"
     ELSE IF state = "Unexported" /\ cached THEN "unexport"
     ELSE "nothing"

\* the branch of set_export that is taken: which control file it writes
ExportBranch(state, exists) ==
  IF state = "Exported" /\ ~exists THEN "export"
  ELSE IF state = "Unexported" /\ exists THEN "unexport"
  ELSE "nothing"

GPIO_set_export(state, fault) ==
  LET exists == gpio.pin_path \in dirs
      probe == <<Ev("exists", gpio.pin_path, <<>>, exists)>>
      data == to_string(gpio.pin_num)
      branch == ExportBranch(state, exists)
      control == IF branch = "export" THEN GpioExportFile ELSE GpioUnexportFile
      w == export_write(control, data, fault)
  IN /\ ~aborted
     /\ branch # "nothing" \/ fault = "none"
     /\ IF branch # "nothing" /\ w.ok
        THEN IF branch = "export" THEN KernelGpioExport(data)
             ELSE KernelGpioUnexport(data)
        ELSE UNCHANGED <<fs, dirs>>
     /\ Record(Call("gpio", "set_export", state,
                    IF branch # "nothing" /\ ~w.ok THEN "Err" ELSE "Ok", "none",
                    IF branch # "nothing" THEN probe \o w.io ELSE probe))
     /\ UNCHANGED <<gpio, pwm, adc, aborted, lastSetPeriod, chardev>>

\* the two directions exchanged
DirectionTextSwapped(direction) ==
  IF direction = "In" THEN <<"o", "u", "t">> ELSE <<"i", "n">>

DirectionText(direction) ==
  IF direction = "In" THEN <<"i", "n">> ELSE <<"o", "u", "t">>

GPIO_set_direction(direction, fault) ==
  LET w == write_file(fs, GpioDirectionFile(gpio.pin_num), DirectionText(direction), fault)
  IN /\ ~aborted
     /\ fs' = w.fs
     /\ Record(Call("gpio", "set_direction", direction,
                    IF w.ok THEN "Ok" ELSE "Err", "none", w.io))
     /\ UNCHANGED <<dirs, gpio, pwm, adc, aborted, lastSetPeriod, chardev>>

PinStateText(state) == IF state = "High" THEN <<"1">> ELSE <<"0">>

GPIO_write(state, fault) ==
  LET w == write_file(fs, GpioValueFile(gpio.pin_num), PinStateText(state), fault)
  IN /\ ~aborted
     /\ fs' = w.fs
     /\ Record(Call("gpio", "write", state,
                    IF w.ok THEN "Ok" ELSE "Err", "none", w.io))
     /\ UNCHANGED <<dirs, gpio, pwm, adc, aborted, lastSetPeriod, chardev>>

\* the match of GPIO::read without the trim
PinStateOfUntrimmed(text) ==
  IF text = <<"1">> THEN "High"
  ELSE IF text = <<"0">> THEN "Low"
  ELSE "none"

\* the match of GPIO::read on the trimmed text
PinStateOf(text) ==
  IF Trim(text) = <<"1">> THEN "High"
  ELSE IF Trim(text) = <<"0">> THEN "Low"
  ELSE "none"

\* read_file().unwrap(): a failed read_file panics
GPIO_read(fault) ==
  LET r == read_file(fs, GpioValueFile(gpio.pin_num), fault)
  IN /\ ~aborted
     /\ aborted' = ~r.ok
     /\ Record(Call("gpio", "read", "none",
                    IF ~r.ok THEN "Panic"
                    ELSE IF PinStateOf(r.text) = "none" THEN "Err" ELSE "Ok",
                    IF r.ok THEN PinStateOf(r.text) ELSE "none", r.io))
     /\ UNCHANGED <<fs, dirs, gpio, pwm, adc, lastSetPeriod, chardev>>

(***************************************************************************)
(* set_export of GPIO and of PWM step by step, for two handles on the same *)
(* pin or channel that run in two threads.  racers[h] is where the call of *)
(* handle h stands: idle, or past the probe and about to create the        *)
(* control file, or holding the File and about to write.                   *)
(***************************************************************************)
Idle(kind) ==
  [kind |-> kind, pc |-> "idle", state |-> "none", branch |-> "nothing", io |-> <<>>]

\* self.pin_path of GPIO, `path` of PWM::set_export
ExportDir(kind) ==
  IF kind = "gpio" THEN gpio.pin_path ELSE PwmDir(pwm.pwm_chip_num, pwm.pwm_num)

ControlFile(kind, branch) ==
  IF kind = "gpio"
  THEN IF branch = "export" THEN GpioExportFile ELSE GpioUnexportFile
  ELSE IF branch = "export" THEN PwmExportFile(pwm.pwm_chip_num)
       ELSE PwmUnexportFile(pwm.pwm_chip_num)

\* self.pin_num.to_string(), self.pwm_num.to_string()
ExportData(kind) ==
  IF kind = "gpio" THEN to_string(gpio.pin_num) ELSE to_string(pwm.pwm_num)

\* the kernel takes an export of what is not exported and an unexport of
\* what is; it refuses the others (EBUSY, EINVAL or ENODEV)
KernelTakes(kind, branch) ==
  IF branch = "export" THEN ExportDir(kind) \notin dirs ELSE ExportDir(kind) \in dirs

\* a write that looks at the directory again and does nothing when the
\* state it wants is there already
WriteGoesOutRechecked(kind, branch) == KernelTakes(kind, branch)

\* whether set_export, holding the File, calls write_all: always
WriteGoesOut(kind, branch) == TRUE

\* state == ... && [!]path.exists(): the probe, and the branch chosen; with
\* nothing to do the call returns Ok
set_export_probe(h, state) ==
  LET r == racers[h]
      exists == ExportDir(r.kind) \in dirs
      probe == <<Ev("exists", ExportDir(r.kind), <<>>, exists)>>
      branch == ExportBranch(state, exists)
  IN /\ ~aborted
     /\ r.pc = "idle"
     /\ logCap > 0 => Len(log) < logCap
     /\ IF branch = "nothing"
        THEN /\ Return(Call(h, "set_export", state, "Ok", "none", probe))
             /\ UNCHANGED racers
        ELSE /\ racers' = [racers EXCEPT ![h] = [kind |-> r.kind, pc |-> "create",
                             state |-> state, branch |-> branch, io |-> probe]]
             /\ UNCHANGED history
     /\ UNCHANGED <<sysfs, aborted, chardev>>

\* File::create(control).chain_err(..)?
set_export_create(h, fault) ==
  LET r == racers[h]
      control == ControlFile(r.kind, r.branch)
      ok == fault # "open"
      io == Append(r.io, Ev("create", control, <<>>, ok))
  IN /\ ~aborted
     /\ r.pc = "create"
     /\ IF ok
        THEN /\ racers' = [racers EXCEPT ![h].pc = "write", ![h].io = io]
             /\ UNCHANGED history
        ELSE /\ racers' = [racers EXCEPT ![h] = Idle(r.kind)]
             /\ Return(Call(h, "set_export", r.state, "Err", "none", io))
     /\ UNCHANGED <<sysfs, aborted, chardev>>

\* .write_all(number).chain_err(..)?, then the File is dropped
set_export_write_all(h) ==
  LET r == racers[h]
      control == ControlFile(r.kind, r.branch)
      data == ExportData(r.kind)
      goes == WriteGoesOut(r.kind, r.branch)
      ok == KernelTakes(r.kind, r.branch)
      io == IF goes
            THEN r.io \o <<Ev("write_all", control, data, ok), Close(control)>>
            ELSE Append(r.io, Close(control))
  IN /\ ~aborted
     /\ r.pc = "write"
     /\ IF goes /\ ok
        THEN IF r.kind = "gpio"
             THEN IF r.branch = "export" THEN KernelGpioExport(data)
                  ELSE KernelGpioUnexport(data)
             ELSE IF r.branch = "export" THEN KernelPwmExport(pwm.pwm_chip_num, data)
                  ELSE KernelPwmUnexport(pwm.pwm_chip_num, data)
        ELSE UNCHANGED <<fs, dirs>>
     /\ racers' = [racers EXCEPT ![h] = Idle(r.kind)]
     /\ Return(Call(h, "set_export", r.state, IF goes /\ ~ok THEN "Err" ELSE "Ok",
                    "none", io))
     /\ UNCHANGED <<gpio, pwm, adc, lastSetPeriod, aborted, chardev>>

(***************************************************************************)
(* Other actors on the same sysfs tree                                     *)
(***************************************************************************)
Other(op) == Call("other", op, "none", "none", "none", <<>>)

\* a step of another actor on the handle's PWM channel
OtherPwm(op) == Call("other", op, "pwm", "none", "none", <<>>)

OtherGpioExport ==
  /\ gpio.pin_path \notin dirs
  /\ KernelGpioExport(to_string(gpio.pin_num))
  /\ Record(Other("export"))
  /\ UNCHANGED <<gpio, pwm, adc, aborted, lastSetPeriod, chardev>>

OtherGpioUnexport ==
  /\ gpio.pin_path \in dirs
  /\ KernelGpioUnexport(to_string(gpio.pin_num))
  /\ Record(Other("unexport"))
  /\ UNCHANGED <<gpio, pwm, adc, aborted, lastSetPeriod, chardev>>

\* the pin's level changes, or another process rewrites the value file
OtherGpioValue(text) ==
  /\ GpioValueFile(gpio.pin_num) \in DOMAIN fs
  /\ fs' = [fs EXCEPT ![GpioValueFile(gpio.pin_num)] = text]
  /\ Record(Other("value"))
  /\ UNCHANGED <<dirs, gpio, pwm, adc, aborted, lastSetPeriod, chardev>>

(***************************************************************************)
(* pwm.rs                                                                  *)
(***************************************************************************)
PWM_new(pwm_chip_num, pwm_num) ==
  [pwm_chip_num |-> pwm_chip_num, pwm_num |-> pwm_num,
   period |-> 0, duty_cycle |-> 0, state |-> "Disabled"]

\* PWM::new as a call
PWM_make(pwm_chip_num, pwm_num) ==
  /\ ~aborted
  /\ pwm' = PWM_new(pwm_chip_num, pwm_num)
  /\ lastSetPeriod' = 0
  /\ Record(Call("pwm", "new", <<pwm_chip_num, pwm_num>>, "Ok", "none", <<>>))
  /\ UNCHANGED <<fs, dirs, gpio, adc, aborted, chardev>>

PWM_set_export(state, fault) ==
  LET path == PwmDir(pwm.pwm_chip_num, pwm.pwm_num)
      exists == path \in dirs
      probe == <<Ev("exists", path, <<>>, exists)>>
      data == to_string(pwm.pwm_num)
      branch == ExportBranch(state, exists)
      control == IF branch = "export" THEN PwmExportFile(pwm.pwm_chip_num)
                 ELSE PwmUnexportFile(pwm.pwm_chip_num)
      w == export_write(control, data, fault)
  IN /\ ~aborted
     /\ branch # "nothing" \/ fault = "none"
     /\ IF branch # "nothing" /\ w.ok
        THEN IF branch = "export" THEN KernelPwmExport(pwm.pwm_chip_num, data)
             ELSE KernelPwmUnexport(pwm.pwm_chip_num, data)
        ELSE UNCHANGED <<fs, dirs>>
     /\ Record(Call("pwm", "set_export", state,
                    IF branch # "nothing" /\ ~w.ok THEN "Err" ELSE "Ok", "none",
                    IF branch # "nothing" THEN probe \o w.io ELSE probe))
     /\ UNCHANGED <<gpio, pwm, adc, aborted, lastSetPeriod, chardev>>

\* set_period that caches the period before it knows the write went through
PWM_set_periodEager(period_ns, fault) ==
  LET w == write_file(fs, PwmPeriodFile(pwm.pwm_chip_num, pwm.pwm_num),
                      to_string(period_ns), fault)
  IN /\ ~aborted
     /\ fs' = w.fs
     /\ pwm' = [pwm EXCEPT !.period = period_ns]
     /\ lastSetPeriod' = IF w.ok THEN period_ns ELSE lastSetPeriod
     /\ Record(Call("pwm", "set_period", period_ns,
                    IF w.ok THEN "Ok" ELSE "Err", "none", w.io))
     /\ UNCHANGED <<dirs, gpio, adc, aborted, chardev>>

PWM_set_period(period_ns, fault) ==
  LET w == write_file(fs, PwmPeriodFile(pwm.pwm_chip_num, pwm.pwm_num),
                      to_string(period_ns), fault)
  IN /\ ~aborted
     /\ fs' = w.fs
     /\ pwm' = IF w.ok THEN [pwm EXCEPT !.period = period_ns] ELSE pwm
     /\ lastSetPeriod' = IF w.ok THEN period_ns ELSE lastSetPeriod
     /\ Record(Call("pwm", "set_period", period_ns,
                    IF w.ok THEN "Ok" ELSE "Err", "none", w.io))
     /\ UNCHANGED <<dirs, gpio, adc, aborted, chardev>>

PWMStateText(state) == IF state = "Enabled" THEN <<"1">> ELSE <<"0">>

PWM_set_state(state, fault) ==
  LET w == write_file(fs, PwmEnableFile(pwm.pwm_chip_num, pwm.pwm_num),
                      PWMStateText(state), fault)
  IN /\ ~aborted
     /\ fs' = w.fs
     /\ pwm' = IF w.ok THEN [pwm EXCEPT !.state = state] ELSE pwm
     /\ Record(Call("pwm", "set_state", state,
                    IF w.ok THEN "Ok" ELSE "Err", "none", w.io))
     /\ UNCHANGED <<dirs, gpio, adc, aborted, lastSetPeriod, chardev>>

\* the duty cycle computed from the period re-read from the kernel's file
NewDutyCycleFromKernel(percentage, period) ==
  LET file == PwmPeriodFile(pwm.pwm_chip_num, pwm.pwm_num)
      kernel == IF file \in DOMAIN fs /\ IsDecimal(Trim(fs[file]))
                THEN ParseDecimal(Trim(fs[file])) ELSE period
  IN F32AsU32(F32Mul(F32Div(percentage, F32Lit(FALSE, 100, 0)), F32FromNat(kernel)))

\* ((percentage / 100.0) * (period as f32)) as u32
NewDutyCycle(percentage, period) ==
  F32AsU32(F32Mul(F32Div(percentage, F32Lit(FALSE, 100, 0)), F32FromNat(period)))

PWM_write(percentage, fault) ==
  LET new_duty_cycle == NewDutyCycle(percentage, pwm.period)
      w == write_file(fs, PwmDutyCycleFile(pwm.pwm_chip_num, pwm.pwm_num),
                      to_string(new_duty_cycle), fault)
  IN /\ ~aborted
     /\ fs' = w.fs
     /\ pwm' = IF w.ok THEN [pwm EXCEPT !.duty_cycle = new_duty_cycle] ELSE pwm
     /\ Record(Call("pwm", "write", percentage,
                    IF w.ok THEN "Ok" ELSE "Err", "none", w.io))
     /\ UNCHANGED <<dirs, gpio, adc, aborted, lastSetPeriod, chardev>>

PWM_set_duty_cycle(duty_cycle_ns, fault) ==
  LET w == write_file(fs, PwmDutyCycleFile(pwm.pwm_chip_num, pwm.pwm_num),
                      to_string(duty_cycle_ns), fault)
  IN /\ ~aborted
     /\ fs' = w.fs
     /\ pwm' = IF w.ok THEN [pwm EXCEPT !.duty_cycle = duty_cycle_ns] ELSE pwm
     /\ Record(Call("pwm", "set_duty_cycle", duty_cycle_ns,
                    IF w.ok THEN "Ok" ELSE "Err", "none", w.io))
     /\ UNCHANGED <<dirs, gpio, adc, aborted, lastSetPeriod, chardev>>

OtherPwmExport ==
  /\ PwmDir(pwm.pwm_chip_num, pwm.pwm_num) \notin dirs
  /\ KernelPwmExport(pwm.pwm_chip_num, to_string(pwm.pwm_num))
  /\ Record(OtherPwm("export"))
  /\ UNCHANGED <<gpio, pwm, adc, aborted, lastSetPeriod, chardev>>

OtherPwmUnexport ==
  /\ PwmDir(pwm.pwm_chip_num, pwm.pwm_num) \in dirs
  /\ KernelPwmUnexport(pwm.pwm_chip_num, to_string(pwm.pwm_num))
  /\ Record(OtherPwm("unexport"))
  /\ UNCHANGED <<gpio, pwm, adc, aborted, lastSetPeriod, chardev>>

\* the kernel's period file is changed out-of-band
OtherPwmPeriod(ns) ==
  /\ PwmPeriodFile(pwm.pwm_chip_num, pwm.pwm_num) \in DOMAIN fs
  /\ fs' = [fs EXCEPT ![PwmPeriodFile(pwm.pwm_chip_num, pwm.pwm_num)] =
                         to_string(ns) \o <<"\n">>]
  /\ Record(Other("period"))
  /\ UNCHANGED <<dirs, gpio, pwm, adc, aborted, lastSetPeriod, chardev>>

(***************************************************************************)
(* adc.rs                                                                  *)
(***************************************************************************)
\* the channel number left offset
ADC_newOffset(pin, scaling_factor) ==
  [pin |-> pin, adc_num |-> AsU16(pin), scaling_factor |-> scaling_factor]

\* (pin as u16) - 1000
ADC_new(pin, scaling_factor) ==
  [pin |-> pin, adc_num |-> (AsU16(pin) - AinOffset) % 65536,
   scaling_factor |-> scaling_factor]

\* a build with overflow checks (debug) panics where the other wraps
Builds == {"debug", "release"}

\* (pin as u16) - 1000 goes below zero
Underflows(pin) == AsU16(pin) < AinOffset

\* ADC::new as a call: the subtraction panics in a build with overflow
\* checks when it underflows, and wraps in a build without
ADC_make(pin, scaling_factor, build) ==
  LET panics == Underflows(pin) /\ build = "debug"
  IN /\ ~aborted
     /\ aborted' = panics
     /\ adc' = IF panics THEN adc ELSE ADC_new(pin, scaling_factor)
     /\ Record(Call("adc", "new", pin, IF panics THEN "Panic" ELSE "Ok", "none", <<>>))
     /\ UNCHANGED <<fs, dirs, gpio, pwm, lastSetPeriod, chardev>>

\* str::parse::<u32>: an optional '+', then at least one digit
ParsesAsU32(s) ==
  IF s # <<>> /\ Head(s) = "+" THEN IsDecimal(Tail(s)) ELSE IsDecimal(s)

ParseU32(s) ==
  IF s # <<>> /\ Head(s) = "+" THEN ParseDecimal(Tail(s)) ELSE ParseDecimal(s)

ADC_read(fault) ==
  LET r == read_file(fs, AdcRawFile(adc.adc_num), fault)
      good == r.ok /\ ParsesAsU32(Trim(r.text))
  IN /\ ~aborted
     /\ Record(Call("adc", "read", "none", IF good THEN "Ok" ELSE "Err",
                    IF good THEN ParseU32(Trim(r.text)) ELSE "none", r.io))
     /\ UNCHANGED <<fs, dirs, gpio, pwm, adc, aborted, lastSetPeriod, chardev>>

\* scaled_read that returns the raw value as a float
ADC_scaled_readUnscaled(fault) ==
  LET r == read_file(fs, AdcRawFile(adc.adc_num), fault)
      good == r.ok /\ ParsesAsU32(Trim(r.text))
  IN /\ ~aborted
     /\ Record(Call("adc", "scaled_read", "none", IF good THEN "Ok" ELSE "Err",
                    IF good THEN F32FromNat(ParseU32(Trim(r.text))) ELSE "none",
                    r.io))
     /\ UNCHANGED <<fs, dirs, gpio, pwm, adc, aborted, lastSetPeriod, chardev>>

ADC_scaled_read(fault) ==
  LET r == read_file(fs, AdcRawFile(adc.adc_num), fault)
      good == r.ok /\ ParsesAsU32(Trim(r.text))
  IN /\ ~aborted
     /\ Record(Call("adc", "scaled_read", "none", IF good THEN "Ok" ELSE "Err",
                    IF good
                    THEN F32Mul(F32FromNat(ParseU32(Trim(r.text))), adc.scaling_factor)
                    ELSE "none", r.io))
     /\ UNCHANGED <<fs, dirs, gpio, pwm, adc, aborted, lastSetPeriod, chardev>>

\* the voltage on the handle's channel changes
OtherAdcRaw(text) ==
  /\ AdcRawFile(adc.adc_num) \in DOMAIN fs
  /\ fs' = [fs EXCEPT ![AdcRawFile(adc.adc_num)] = text]
  /\ Record(Other("raw"))
  /\ UNCHANGED <<dirs, gpio, pwm, adc, aborted, lastSetPeriod, chardev>>

(***************************************************************************)
(* Character devices.  An ioctl is the event Ev("ioctl", request, argument, *)
(* ok); it cannot fail to open (the handle holds the open file), only to   *)
(* go through.  `dev` is the kernel's and the wire's side: the mode        *)
(* register of the spidev, the slave address of the i2c adapter, the block *)
(* the adapter filled last, the bytes waiting in and sent out of the tty.  *)
(***************************************************************************)
IoctlFaults == {"none", "xfer"}

Ioctl(dir, nr, size) == [dir |-> dir, nr |-> nr, size |-> size]

Ioctls(c) == SelectSeq(c.io, LAMBDA e : e.call = "ioctl")

DevInit ==
  [mode |-> 0, slave |-> 0, block |-> <<>>, rxq |-> <<>>, txq |-> <<>>]

\* the value of a handle variable while there is no handle
NoHandle == [made |-> FALSE]

\* self.spi_file.as_raw_fd(), self.i2c_file.as_raw_fd(): the handle holds a
\* descriptor to make the call on
Holds(who) == \E d \in fds : d.who = who

(***************************************************************************)
(* spi.rs                                                                  *)
(***************************************************************************)
SPI_IOC_NR_TRANSFER == 0

SPI_IOC_NR_MODE == 1

SPI_IOC_NR_MODE32 == 5

get_mode_u8 == Ioctl("read", SPI_IOC_NR_MODE, 1)

set_mode_u8 == Ioctl("write", SPI_IOC_NR_MODE, 1)

set_mode_u32 == Ioctl("write", SPI_IOC_NR_MODE32, 4)

spidev_transfer == Ioctl("write", SPI_IOC_NR_TRANSFER, 32)

SPI_new(spi_num) ==
  [spi_num |-> spi_num, bits_per_word |-> 8, max_speed_hz |-> 10000,
   lsb_first |-> FALSE, spi_mode |-> 0]

\* SPI::new without the File kept in the handle: it is closed at once
SPI_openAndClose(spi_num, fault) ==
  LET ok == fault # "open"
  IN /\ ~aborted
     /\ spi = NoHandle
     /\ spi' = IF ok THEN SPI_new(spi_num) ELSE spi
     /\ Record(Call("spi", "new", spi_num, IF ok THEN "Ok" ELSE "Err", "none",
                    IF ok THEN <<Ev("open_rw", SpiDevFile(spi_num), <<>>, ok),
                                 Close(SpiDevFile(spi_num))>>
                    ELSE <<Ev("open_rw", SpiDevFile(spi_num), <<>>, ok)>>))
     /\ UNCHANGED <<transfer, i2c, uart, dev, openFile, aborted, sysfs>>

\* SPI::new as a call: OpenOptions::new().read(true).write(true).open(path)
\* with `?`, the File kept in spi_file
SPI_open(spi_num, fault) ==
  LET ok == fault # "open"
  IN /\ ~aborted
     /\ spi = NoHandle
     /\ spi' = IF ok THEN SPI_new(spi_num) ELSE spi
     /\ Record(Call("spi", "new", spi_num, IF ok THEN "Ok" ELSE "Err", "none",
                    <<Ev("open_rw", SpiDevFile(spi_num), <<>>, ok)>>))
     /\ UNCHANGED <<transfer, i2c, uart, dev, openFile, aborted, sysfs>>

\* the handle goes out of scope: spi_file is dropped with it
SPI_drop ==
  /\ ~aborted
  /\ spi # NoHandle
  /\ spi' = NoHandle
  /\ Record(Call("spi", "drop", "none", "none", "none",
                 <<Close(SpiDevFile(spi.spi_num))>>))
  /\ UNCHANGED <<transfer, i2c, uart, dev, openFile, aborted, sysfs>>

\* the SPIModeFlags constants; a mode is the sum of distinct bits
SPI_TX_DUAL == 256

SPI_TX_QUAD == 512

SPI_RX_DUAL == 1024

SPI_RX_QUAD == 2048

\* set_mode that always takes the 8-bit call
ModeCallNarrow(bits) == [req |-> set_mode_u8, arg |-> bits % 256]

\* the branch of set_mode: (bits & 0xFFFFFF00) != 0 picks the 32-bit call
\* with all the bits, else `bits as u8` goes to the 8-bit call
ModeCall(bits) ==
  IF bits - (bits % 256) # 0
  THEN [req |-> set_mode_u32, arg |-> bits]
  ELSE [req |-> set_mode_u8, arg |-> bits % 256]

SPI_set_mode(mode, fault) ==
  LET c == ModeCall(mode)
      ok == fault = "none"
  IN /\ ~aborted
     /\ Holds("spi")
     /\ dev' = IF ok THEN [dev EXCEPT !.mode = c.arg] ELSE dev
     /\ Record(Call("spi", "set_mode", mode, IF ok THEN "Ok" ELSE "Err", "none",
                    <<Ev("ioctl", c.req, c.arg, ok)>>))
     /\ UNCHANGED <<spi, transfer, i2c, uart, openFile, aborted, sysfs>>

SPI_get_mode(fault) ==
  LET ok == fault = "none"
  IN /\ ~aborted
     /\ Holds("spi")
     /\ Record(Call("spi", "get_mode", "none", IF ok THEN "Ok" ELSE "Err",
                    IF ok THEN dev.mode % 256 ELSE "none",
                    <<Ev("ioctl", get_mode_u8, 0, ok)>>))
     /\ UNCHANGED <<chardev, aborted, sysfs>>

\* a spi_ioc_transfer; kind tells which of the two pointers are set, tx_buf
\* and rx_buf are the buffers they point to
NoTransfer == [kind |-> "none", tx_buf |-> <<>>, rx_buf |-> <<>>, len |-> 0]

\* read_write without its assertion
AssertEqLenMissing(tx_buf, rx_buf) == TRUE

\* assert_eq!(tx_buf.len(), rx_buf.len())
AssertEqLen(tx_buf, rx_buf) == Len(tx_buf) = Len(rx_buf)

spi_ioc_transfer_read(buf) ==
  /\ ~aborted
  /\ transfer' = [kind |-> "read", tx_buf |-> <<>>, rx_buf |-> buf, len |-> Len(buf)]
  /\ Record(Call("spi", "spi_ioc_transfer::read", <<buf>>, "Ok", "none", <<>>))
  /\ UNCHANGED <<spi, i2c, uart, dev, openFile, aborted, sysfs>>

spi_ioc_transfer_write(buf) ==
  /\ ~aborted
  /\ transfer' = [kind |-> "write", tx_buf |-> buf, rx_buf |-> <<>>, len |-> Len(buf)]
  /\ Record(Call("spi", "spi_ioc_transfer::write", <<buf>>, "Ok", "none", <<>>))
  /\ UNCHANGED <<spi, i2c, uart, dev, openFile, aborted, sysfs>>

\* a failed assertion panics: no record is made
spi_ioc_transfer_read_write(tx_buf, rx_buf) ==
  LET pass == AssertEqLen(tx_buf, rx_buf)
  IN /\ ~aborted
     /\ aborted' = ~pass
     /\ transfer' = IF pass
                    THEN [kind |-> "read_write", tx_buf |-> tx_buf,
                          rx_buf |-> rx_buf, len |-> Len(tx_buf)]
                    ELSE transfer
     /\ Record(Call("spi", "spi_ioc_transfer::read_write", <<tx_buf, rx_buf>>,
                    IF pass THEN "Ok" ELSE "Panic", "none", <<>>))
     /\ UNCHANGED <<spi, i2c, uart, dev, openFile, sysfs>>

\* the kernel clocks len words: it fills the receive buffer, if there is
\* one, with what the wire returned
SPI_transfer(reply, fault) ==
  LET ok == fault = "none"
  IN /\ ~aborted
     /\ Holds("spi")
     /\ transfer.kind # "none"
     /\ Len(reply) = transfer.len
     /\ (ok /\ transfer.kind # "write") \/ \A i \in 1..Len(reply) : reply[i] = 0
     /\ transfer' = IF ok /\ transfer.kind # "write"
                    THEN [transfer EXCEPT !.rx_buf = reply] ELSE transfer
     /\ Record(Call("spi", "transfer", transfer, IF ok THEN "Ok" ELSE "Err", "none",
                    <<Ev("ioctl", spidev_transfer, transfer, ok)>>))
     /\ UNCHANGED <<spi, i2c, uart, dev, openFile, aborted, sysfs>>

(***************************************************************************)
(* i2c.rs                                                                  *)
(***************************************************************************)
I2C_SMBUS_BLOCK_MAX == 32

I2C_SLAVE == 1795

I2C_SMBUS == 1824

I2C_new(i2c_num) == [i2c_num |-> i2c_num]

\* I2C::new as a call: OpenOptions::new().read(true).write(true).open(path)
\* with `?`, the File kept in i2c_file
I2C_open(i2c_num, fault) ==
  LET ok == fault # "open"
  IN /\ ~aborted
     /\ i2c = NoHandle
     /\ i2c' = IF ok THEN I2C_new(i2c_num) ELSE i2c
     /\ Record(Call("i2c", "new", i2c_num, IF ok THEN "Ok" ELSE "Err", "none",
                    <<Ev("open_rw", I2cDevFile(i2c_num), <<>>, ok)>>))
     /\ UNCHANGED <<spi, transfer, uart, dev, openFile, aborted, sysfs>>

\* the handle goes out of scope: i2c_file is dropped with it
I2C_drop ==
  /\ ~aborted
  /\ i2c # NoHandle
  /\ i2c' = NoHandle
  /\ Record(Call("i2c", "drop", "none", "none", "none",
                 <<Close(I2cDevFile(i2c.i2c_num))>>))
  /\ UNCHANGED <<spi, transfer, uart, dev, openFile, aborted, sysfs>>

\* a *mut i2c_data: null, or the address of a block
NullPtr == [null |-> TRUE, block |-> <<>>]

PtrTo(block) == [null |-> FALSE, block |-> block]

\* a block left as the stack slot held it
i2c_data_stale ==
  IF dev.block = <<>> THEN [i \in 1..(I2C_SMBUS_BLOCK_MAX + 2) |-> 0] ELSE dev.block

\* i2c_data { block: mem::zeroed() }
i2c_data_zeroed == [i \in 1..(I2C_SMBUS_BLOCK_MAX + 2) |-> 0]

\* the struct with its first two fields exchanged
i2c_ioctl_dataSwapped(read_write, command, size, data) ==
  [read_write |-> command, command |-> read_write, size |-> size, data |-> data]

i2c_ioctl_data(read_write, command, size, data) ==
  [read_write |-> read_write, command |-> command, size |-> size, data |-> data]

\* the adapter's side of an SMBus byte transfer: a read stores the byte the
\* slave sent in block[0]; a read without a block is refused
Adapter(args, byte) ==
  IF args.read_write = 1 /\ ~args.data.null
  THEN PtrTo([args.data.block EXCEPT ![1] = byte])
  ELSE args.data

Refused(args) == args.read_write = 1 /\ args.data.null

i2c_call(read_write, command, size, data, byte, fault) ==
  LET args == i2c_ioctl_data(read_write, command, size, data)
      ok == fault = "none" /\ ~Refused(args)
  IN [ok |-> ok,
      data |-> IF ok THEN Adapter(args, byte) ELSE data,
      io |-> <<Ev("ioctl", I2C_SMBUS, args, ok)>>]

I2C_set_slave_address(slave_addr, fault) ==
  LET ok == fault = "none"
  IN /\ ~aborted
     /\ Holds("i2c")
     /\ dev' = IF ok THEN [dev EXCEPT !.slave = slave_addr] ELSE dev
     /\ Record(Call("i2c", "set_slave_address", slave_addr,
                    IF ok THEN "Ok" ELSE "Err", "none",
                    <<Ev("ioctl", I2C_SLAVE, slave_addr, ok)>>))
     /\ UNCHANGED <<spi, transfer, i2c, uart, openFile, aborted, sysfs>>

I2C_write(data, fault) ==
  LET r == i2c_call(0, data, 1, NullPtr, 0, fault)
  IN /\ ~aborted
     /\ Holds("i2c")
     /\ Record(Call("i2c", "write", data, IF r.ok THEN "Ok" ELSE "Err", "none", r.io))
     /\ UNCHANGED <<chardev, aborted, sysfs>>

\* byte is what the slave sends; the block dies with the call, dev.block is
\* what it leaves behind in memory
I2C_read(byte, fault) ==
  LET data == i2c_data_zeroed
      r == i2c_call(1, 0, 1, PtrTo(data), byte, fault)
  IN /\ ~aborted
     /\ Holds("i2c")
     /\ fault # "none" => byte = 0
     /\ dev' = [dev EXCEPT !.block = r.data.block]
     /\ Record(Call("i2c", "read", "none", IF r.ok THEN "Ok" ELSE "Err",
                    IF r.ok THEN r.data.block[1] ELSE "none", r.io))
     /\ UNCHANGED <<spi, transfer, i2c, uart, openFile, aborted, sysfs>>

(***************************************************************************)
(* uart.rs                                                                 *)
(***************************************************************************)
UART_new(uart_num) == [uart_num |-> uart_num]

\* Vec::with_capacity(num_bytes): room for num_bytes, length 0
Vec_with_capacity(num_bytes) == <<>>

\* Read::read_exact into a slice of buf_len bytes: nothing is read for an
\* empty slice; else it takes buf_len bytes, or fails when the port gives
\* fewer before the timeout (what it took by then is gone)
read_exact(rxq, buf_len, fault) ==
  IF buf_len = 0
  THEN [ok |-> TRUE, bytes |-> <<>>, rest |-> rxq, io |-> <<>>]
  ELSE IF fault # "none" \/ Len(rxq) < buf_len
  THEN [ok |-> FALSE, bytes |-> <<>>, rest |-> IF fault # "none" THEN rxq ELSE <<>>,
        io |-> <<Ev("read", "port", <<>>, FALSE)>>]
  ELSE [ok |-> TRUE, bytes |-> SubSeq(rxq, 1, buf_len),
        rest |-> SubSeq(rxq, buf_len + 1, Len(rxq)),
        io |-> <<Ev("read", "port", <<>>, TRUE)>>]

\* String::from_utf8 on the bytes the model uses: ASCII is valid, 0xFF never
IsUtf8(bytes) == \A i \in 1..Len(bytes) : bytes[i] < 128

UART_write(data, fault) ==
  LET ok == fault = "none"
  IN /\ ~aborted
     /\ dev' = IF ok THEN [dev EXCEPT !.txq = data] ELSE dev
     /\ Record(Call("uart", "write", data, IF ok THEN "Ok" ELSE "Err", "none",
                    <<Ev("write_all", "port", data, ok)>>))
     /\ UNCHANGED <<spi, transfer, i2c, uart, openFile, aborted, sysfs>>

UART_read_chars(num_bytes, fault) ==
  LET buf == Vec_with_capacity(num_bytes)
      r == read_exact(dev.rxq, Len(buf), fault)
  IN /\ ~aborted
     /\ dev' = [dev EXCEPT !.rxq = r.rest]
     /\ Record(Call("uart", "read_chars", num_bytes, IF r.ok THEN "Ok" ELSE "Err",
                    IF r.ok THEN r.bytes ELSE <<>>, r.io))
     /\ UNCHANGED <<spi, transfer, i2c, uart, openFile, aborted, sysfs>>

UART_read_to_string(num_bytes, fault) ==
  LET buf == Vec_with_capacity(num_bytes)
      r == read_exact(dev.rxq, Len(buf), fault)
      good == r.ok /\ IsUtf8(r.bytes)
  IN /\ ~aborted
     /\ dev' = [dev EXCEPT !.rxq = r.rest]
     /\ Record(Call("uart", "read_to_string", num_bytes, IF good THEN "Ok" ELSE "Err",
                    IF good THEN r.bytes ELSE <<>>, r.io))
     /\ UNCHANGED <<spi, transfer, i2c, uart, openFile, aborted, sysfs>>

\* a byte arrives on the line
OtherUartRx(byte) ==
  /\ Len(dev.rxq) < MaxQueue
  /\ dev' = [dev EXCEPT !.rxq = Append(@, byte)]
  /\ Record(Other("rx"))
  /\ UNCHANGED <<spi, transfer, i2c, uart, openFile, aborted, sysfs>>

(***************************************************************************)
(* util.rs, on a File that is already open                                 *)
(***************************************************************************)
NoFile == [open |-> FALSE, path |-> <<>>]

\* a caller opens an attribute file and holds the File
OtherOpen(path) ==
  /\ ~aborted
  /\ ~openFile.open
  /\ path \in DOMAIN fs
  /\ openFile' = [open |-> TRUE, path |-> path]
  /\ Record(Other("open"))
  /\ UNCHANGED <<spi, transfer, i2c, uart, dev, aborted, sysfs>>

\* impl Writeable for &str, called on a path
str_write_file(path, data, fault) ==
  LET w == write_file(fs, path, data, fault)
  IN /\ ~aborted
     /\ fs' = w.fs
     /\ Record(Call("util", "str::write_file", data,
                    IF w.ok THEN "Ok" ELSE "Err", "none", w.io))
     /\ UNCHANGED <<dirs, gpio, pwm, adc, lastSetPeriod, aborted, chardev>>

\* impl Readable for &str, called on a path
str_read_file(path, fault) ==
  LET r == read_file(fs, path, fault)
  IN /\ ~aborted
     /\ Record(Call("util", "str::read_file", "none",
                    IF r.ok THEN "Ok" ELSE "Err",
                    IF r.ok THEN r.text ELSE "none", r.io))
     /\ UNCHANGED <<sysfs, aborted, chardev>>

\* impl Writeable for File: let _ = self.write_all(..); Ok(()).  The File
\* is consumed by the call.
File_write_file(data, fault) ==
  LET ok == fault = "none"
  IN /\ ~aborted
     /\ openFile.open
     /\ fs' = IF ok /\ openFile.path \in DOMAIN fs
              THEN [fs EXCEPT ![openFile.path] = data] ELSE fs
     /\ openFile' = NoFile
     /\ Record(Call("util", "File::write_file", data, "Ok", "none",
                    <<Ev("write_all", openFile.path, data, ok)>>))
     /\ UNCHANGED <<dirs, gpio, pwm, adc, lastSetPeriod, aborted,
                    spi, transfer, i2c, uart, dev>>

\* impl Readable for File: let _ = self.read_to_string(&mut value_str);
\* Ok(value_str).  A read that fails leaves in value_str the first got
\* characters, those it had read by then.
File_read_file(got, fault) ==
  LET ok == fault = "none" /\ openFile.path \in DOMAIN fs
      content == IF openFile.path \in DOMAIN fs THEN fs[openFile.path] ELSE <<>>
  IN /\ ~aborted
     /\ openFile.open
     /\ got <= Len(content)
     /\ ok => got = Len(content)
     /\ openFile' = NoFile
     /\ Record(Call("util", "File::read_file", "none", "Ok",
                    SubSeq(content, 1, got),
                    <<Ev("read_to_string", openFile.path, <<>>, ok)>>))
     /\ UNCHANGED <<sysfs, aborted, spi, transfer, i2c, uart, dev>>

(***************************************************************************)
(* Specifications                                                          *)
(***************************************************************************)
PinStates == {"High", "Low"}

DeviceStates == {"Exported", "Unexported"}

PinDirections == {"In", "Out"}

PWMStates == {"Enabled", "Disabled"}

\* the handles the specifications construct
PinSample == {69, 1007}

PwmChipSample == {0, 2, 4, 255}

PwmNumSample == {0, 1, 255}

AdcChannels == 0..7

\* -50, 50 and 150 percent
Percentages ==
  {F32Lit(TRUE, 50, 0), F32Lit(FALSE, 50, 0), F32Lit(FALSE, 150, 0)}

Periods == {100, 500000}

DutyCycles == {250000}

\* the arguments of the duty-cycle computation: 0, 12.5, 50, 53, 100 percent
\* of 3, 100, 500000 and 2^24 + 1 ns
DutyPercentages ==
  {F32Lit(FALSE, 0, 0), F32Lit(FALSE, 25, 1), F32Lit(FALSE, 50, 0),
   F32Lit(FALSE, 53, 0), F32Lit(FALSE, 100, 0)}

DutyPeriods == {3, 100, 500000, 16777217}

\* 0.0, 1.0 and 0.5
ScalingFactors == {F32Lit(FALSE, 0, 0), F32Lit(FALSE, 1, 0), F32Lit(FALSE, 1, 1)}

\* the control files of the chips and the channels of the ADC are there
InitFs ==
  [p \in {AdcRawFile(k) : k \in AdcChannels} |-> <<"0", "\n">>]

\* no SPI transfer built, nothing on the wires, no File held; the three
\* handles hold their devices open
InitChardev ==
  /\ spi = SPI_new(0)
  /\ transfer = NoTransfer
  /\ i2c = I2C_new(1)
  /\ uart = UART_new(2)
  /\ dev = DevInit
  /\ openFile = NoFile
  /\ fds = {Fd("spi", SpiDevFile(spi.spi_num), "rw"),
            Fd("i2c", I2cDevFile(i2c.i2c_num), "rw"),
            Fd("uart", UartDevFile(uart.uart_num), "rw")}

InitCommon ==
  /\ fs = InitFs
  /\ dirs = {}
  /\ last = NoCall
  /\ prev = NoCall
  /\ aborted = FALSE
  /\ lastSetPeriod = 0
  /\ InitChardev
  /\ log = <<>>
  /\ racers = [h \in Racers |-> Idle("gpio")]

InitGpio ==
  /\ InitCommon
  /\ keepPrev = TRUE
  /\ logCap = 0
  /\ gpio \in {GPIO_new(p) : p \in PinSample}
  /\ pwm = PWM_new(0, 0)
  /\ adc = ADC_new(AinOffset, F32Lit(FALSE, 0, 0))

NextGpio ==
  \/ \E s \in DeviceStates, f \in Faults : GPIO_set_export(s, f)
  \/ \E d \in PinDirections, f \in Faults : GPIO_set_direction(d, f)
  \/ \E s \in PinStates, f \in Faults : GPIO_write(s, f)
  \/ \E f \in Faults : GPIO_read(f)
  \/ OtherGpioExport
  \/ OtherGpioUnexport
  \/ \E t \in LevelTexts : OtherGpioValue(t)

SpecGpio == InitGpio /\ [][NextGpio]_vars

InitPwm ==
  /\ InitCommon
  /\ keepPrev = FALSE
  /\ logCap = 0
  /\ gpio = GPIO_new(2)
  /\ pwm = PWM_new(0, 0)
  /\ adc = ADC_new(AinOffset, F32Lit(FALSE, 0, 0))

NextPwm ==
  \/ \E s \in DeviceStates, f \in Faults : PWM_set_export(s, f)
  \/ \E ns \in Periods, f \in Faults : PWM_set_period(ns, f)
  \/ \E s \in PWMStates, f \in Faults : PWM_set_state(s, f)
  \/ \E p \in Percentages, f \in Faults : PWM_write(p, f)
  \/ \E ns \in DutyCycles, f \in Faults : PWM_set_duty_cycle(ns, f)
  \/ OtherPwmExport
  \/ OtherPwmUnexport
  \/ \E ns \in Periods : OtherPwmPeriod(ns)

SpecPwm == InitPwm /\ [][NextPwm]_vars

\* export and unexport alone, for every pin and a sample of PWM channels
InitExport ==
  /\ InitCommon
  /\ keepPrev = TRUE
  /\ logCap = 0
  /\ adc = ADC_new(AinOffset, F32Lit(FALSE, 0, 0))
  /\ \/ gpio \in {GPIO_new(p) : p \in Pin} /\ pwm = PWM_new(0, 0)
     \/ /\ gpio = GPIO_new(2)
        /\ pwm \in {PWM_new(c, n) : c \in PwmChipSample, n \in PwmNumSample}

NextExport ==
  \/ \E s \in DeviceStates, f \in Faults : GPIO_set_export(s, f)
  \/ \E s \in DeviceStates, f \in Faults : PWM_set_export(s, f)
  \/ OtherGpioExport
  \/ OtherGpioUnexport
  \/ OtherPwmExport
  \/ OtherPwmUnexport

SpecExport == InitExport /\ [][NextExport]_vars

\* the duty-cycle computation, on a channel another actor has exported
InitPwmDuty ==
  /\ fs = AddFiles(InitFs, PwmAttributes(0, 0))
  /\ dirs = {PwmDir(0, 0)}
  /\ last = NoCall
  /\ prev = NoCall
  /\ keepPrev = FALSE
  /\ logCap = 0
  /\ log = <<>>
  /\ racers = [h \in Racers |-> Idle("gpio")]
  /\ InitChardev
  /\ aborted = FALSE
  /\ lastSetPeriod = 0
  /\ gpio = GPIO_new(2)
  /\ pwm = PWM_new(0, 0)
  /\ adc = ADC_new(AinOffset, F32Lit(FALSE, 0, 0))

NextPwmDuty ==
  \/ \E ns \in DutyPeriods, f \in Faults : PWM_set_period(ns, f)
  \/ \E p \in DutyPercentages, f \in Faults : PWM_write(p, f)

SpecPwmDuty == InitPwmDuty /\ [][NextPwmDuty]_vars

InitAdc ==
  /\ InitCommon
  /\ keepPrev = FALSE
  /\ logCap = 0
  /\ gpio = GPIO_new(2)
  /\ pwm = PWM_new(0, 0)
  /\ adc \in {ADC_new(p, sf) : p \in AinPinIds, sf \in ScalingFactors}

NextAdc ==
  \/ \E f \in Faults : ADC_read(f)
  \/ \E f \in Faults : ADC_scaled_read(f)
  \/ \E t \in Texts : OtherAdcRaw(t)

SpecAdc == InitAdc /\ [][NextAdc]_vars

\* longest SPI buffer
MaxBuf == 2

SpiBytes == {0, 255}

SpiBuffers == UNION {[1..n -> SpiBytes] : n \in 0..MaxBuf}

\* receive buffers start out zeroed
SpiRxBuffers == {[i \in 1..n |-> 0] : n \in 0..MaxBuf}

\* MODE_0, MODE_3, SPI_READY, all of the low byte, and modes with the dual
\* and quad bits
SpiModes ==
  {0, 3, 128, 255, SPI_TX_DUAL, SPI_TX_DUAL + 1, SPI_RX_QUAD,
   SPI_TX_DUAL + SPI_TX_QUAD + SPI_RX_DUAL + SPI_RX_QUAD + 255}

InitSpi ==
  /\ InitCommon
  /\ keepPrev = FALSE
  /\ logCap = 0
  /\ gpio = GPIO_new(2)
  /\ pwm = PWM_new(0, 0)
  /\ adc = ADC_new(AinOffset, F32Lit(FALSE, 0, 0))

NextSpi ==
  \/ \E m \in SpiModes, f \in IoctlFaults : SPI_set_mode(m, f)
  \/ \E f \in IoctlFaults : SPI_get_mode(f)
  \/ \E b \in SpiRxBuffers : spi_ioc_transfer_read(b)
  \/ \E b \in SpiBuffers : spi_ioc_transfer_write(b)
  \/ \E t \in SpiBuffers, r \in SpiRxBuffers : spi_ioc_transfer_read_write(t, r)
  \/ \E r \in SpiBuffers, f \in IoctlFaults : SPI_transfer(r, f)

SpecSpi == InitSpi /\ [][NextSpi]_vars

I2cNums == {1, 2}

\* 0x45 and 0x10
SlaveAddresses == {69, 16}

I2cBytes == {0, 1, 7, 255}

InitI2c ==
  /\ fs = InitFs
  /\ dirs = {}
  /\ last = NoCall
  /\ prev = NoCall
  /\ aborted = FALSE
  /\ lastSetPeriod = 0
  /\ spi = SPI_new(0)
  /\ transfer = NoTransfer
  /\ i2c \in {I2C_new(n) : n \in I2cNums}
  /\ uart = UART_new(2)
  /\ dev = DevInit
  /\ openFile = NoFile
  /\ fds = {Fd("spi", SpiDevFile(spi.spi_num), "rw"),
            Fd("i2c", I2cDevFile(i2c.i2c_num), "rw"),
            Fd("uart", UartDevFile(uart.uart_num), "rw")}
  /\ log = <<>>
  /\ racers = [h \in Racers |-> Idle("gpio")]
  /\ keepPrev = TRUE
  /\ logCap = 0
  /\ gpio = GPIO_new(2)
  /\ pwm = PWM_new(0, 0)
  /\ adc = ADC_new(AinOffset, F32Lit(FALSE, 0, 0))

NextI2c ==
  \/ \E a \in SlaveAddresses, f \in IoctlFaults : I2C_set_slave_address(a, f)
  \/ \E b \in I2cBytes, f \in IoctlFaults : I2C_write(b, f)
  \/ \E b \in I2cBytes, f \in IoctlFaults : I2C_read(b, f)

SpecI2c == InitI2c /\ [][NextI2c]_vars

\* 'A', 'B' and a byte that is no UTF-8
UartBytes == {65, 66, 255}

UartData == {<<>>, <<104>>, <<104, 105>>}

ReadSizes == 0..MaxQueue

InitUart ==
  /\ InitCommon
  /\ keepPrev = FALSE
  /\ logCap = 0
  /\ gpio = GPIO_new(2)
  /\ pwm = PWM_new(0, 0)
  /\ adc = ADC_new(AinOffset, F32Lit(FALSE, 0, 0))

NextUart ==
  \/ \E t \in UartData, f \in IoctlFaults : UART_write(t, f)
  \/ \E n \in ReadSizes, f \in IoctlFaults : UART_read_chars(n, f)
  \/ \E n \in ReadSizes, f \in IoctlFaults : UART_read_to_string(n, f)
  \/ \E b \in UartBytes : OtherUartRx(b)

SpecUart == InitUart /\ [][NextUart]_vars

\* an attribute file that is there and one that is not
UtilPaths == {AdcRawFile(0), GpioValueFile(2)}

InitUtil ==
  /\ InitCommon
  /\ keepPrev = FALSE
  /\ logCap = 0
  /\ gpio = GPIO_new(2)
  /\ pwm = PWM_new(0, 0)
  /\ adc = ADC_new(AinOffset, F32Lit(FALSE, 0, 0))

NextUtil ==
  \/ \E p \in UtilPaths : OtherOpen(p)
  \/ \E p \in UtilPaths, t \in Texts, f \in Faults : str_write_file(p, t, f)
  \/ \E p \in UtilPaths, f \in Faults : str_read_file(p, f)
  \/ \E t \in Texts, f \in IoctlFaults : File_write_file(t, f)
  \/ \E k \in 0..MaxLen, f \in IoctlFaults : File_read_file(k, f)

SpecUtil == InitUtil /\ [][NextUtil]_vars

\* export and unexport of one pin and one PWM channel by the handles and
\* by other actors, with the history of the calls
InitReprobe ==
  /\ InitCommon
  /\ keepPrev = FALSE
  /\ logCap = ReprobeLen
  /\ gpio = GPIO_new(69)
  /\ pwm = PWM_new(0, 1)
  /\ adc = ADC_new(AinOffset, F32Lit(FALSE, 0, 0))

NextReprobe ==
  \/ \E s \in DeviceStates, f \in Faults : GPIO_set_export(s, f)
  \/ \E s \in DeviceStates, f \in Faults : PWM_set_export(s, f)
  \/ OtherGpioExport
  \/ OtherGpioUnexport
  \/ OtherPwmExport
  \/ OtherPwmUnexport

SpecReprobe == InitReprobe /\ [][NextReprobe]_vars

\* a call either goes through or cannot open its file
OpenFaults == {"none", "open"}

\* one GPIO handle alone on pin 69, with the history of its calls
InitOrder ==
  /\ InitCommon
  /\ keepPrev = FALSE
  /\ logCap = OrderLen
  /\ gpio = GPIO_new(69)
  /\ pwm = PWM_new(0, 0)
  /\ adc = ADC_new(AinOffset, F32Lit(FALSE, 0, 0))

NextOrder ==
  \/ \E s \in DeviceStates, f \in OpenFaults : GPIO_set_export(s, f)
  \/ \E d \in PinDirections, f \in OpenFaults : GPIO_set_direction(d, f)
  \/ \E s \in PinStates, f \in OpenFaults : GPIO_write(s, f)

SpecOrder == InitOrder /\ [][NextOrder]_vars

\* every kind of handle at work: pin 69, PWM 0-1, AIN_0, /dev/i2c-1 and
\* /dev/spidev0.0, each call with every way its I/O can fail
InitAttempt ==
  /\ InitCommon
  /\ keepPrev = FALSE
  /\ logCap = 0
  /\ gpio = GPIO_new(69)
  /\ pwm = PWM_new(0, 1)
  /\ adc = ADC_new(AinOffset, F32Lit(FALSE, 0, 0))

NextAttempt ==
  \/ \E s \in DeviceStates, f \in Faults : GPIO_set_export(s, f)
  \/ \E f \in Faults : GPIO_write("High", f)
  \/ \E f \in Faults : GPIO_read(f)
  \/ \E s \in DeviceStates, f \in Faults : PWM_set_export(s, f)
  \/ \E f \in Faults : ADC_read(f)
  \/ \E f \in IoctlFaults : I2C_set_slave_address(69, f)
  \/ \E f \in IoctlFaults : I2C_write(7, f)
  \/ \E f \in IoctlFaults : I2C_read(0, f)
  \/ \E f \in IoctlFaults : SPI_set_mode(3, f)
  \/ spi_ioc_transfer_write(<<255>>)
  \/ \E f \in IoctlFaults : SPI_transfer(<<0>>, f)

SpecAttempt == InitAttempt /\ [][NextAttempt]_vars

\* handles are made, used and dropped: the sysfs handles can be made over,
\* the I2C and the SPI handle are not there at the start
InitOwner ==
  /\ fs = InitFs
  /\ dirs = {}
  /\ last = NoCall
  /\ prev = NoCall
  /\ aborted = FALSE
  /\ lastSetPeriod = 0
  /\ spi = NoHandle
  /\ transfer = NoTransfer
  /\ i2c = NoHandle
  /\ uart = UART_new(2)
  /\ dev = DevInit
  /\ openFile = NoFile
  /\ fds = {}
  /\ log = <<>>
  /\ racers = [h \in Racers |-> Idle("gpio")]
  /\ keepPrev = FALSE
  /\ logCap = 0
  /\ gpio = GPIO_new(69)
  /\ pwm = PWM_new(0, 1)
  /\ adc = ADC_new(AinOffset, F32Lit(FALSE, 0, 0))

NextOwner ==
  \/ GPIO_make(69)
  \/ \E s \in DeviceStates, f \in Faults : GPIO_set_export(s, f)
  \/ \E f \in Faults : GPIO_write("High", f)
  \/ \E f \in Faults : GPIO_read(f)
  \/ PWM_make(0, 1)
  \/ \E f \in Faults : PWM_set_export("Exported", f)
  \/ \E b \in Builds : ADC_make(AinOffset, F32Lit(FALSE, 0, 0), b)
  \/ \E f \in Faults : ADC_read(f)
  \/ \E n \in I2cNums, f \in OpenFaults : I2C_open(n, f)
  \/ \E f \in IoctlFaults : I2C_read(0, f)
  \/ I2C_drop
  \/ \E f \in OpenFaults : SPI_open(0, f)
  \/ \E f \in IoctlFaults : SPI_get_mode(f)
  \/ SPI_drop

SpecOwner == InitOwner /\ [][NextOwner]_vars

\* calls of one history
RaceLen == 4

\* two GPIO handles on pin 69, or two PWM handles on channel 0-1, each in
\* its thread
InitRace ==
  /\ fs = InitFs
  /\ dirs = {}
  /\ last = NoCall
  /\ prev = NoCall
  /\ aborted = FALSE
  /\ lastSetPeriod = 0
  /\ InitChardev
  /\ log = <<>>
  /\ \E kind \in {"gpio", "pwm"} : racers = [h \in Racers |-> Idle(kind)]
  /\ keepPrev = FALSE
  /\ logCap = RaceLen
  /\ gpio = GPIO_new(69)
  /\ pwm = PWM_new(0, 1)
  /\ adc = ADC_new(AinOffset, F32Lit(FALSE, 0, 0))

NextRace ==
  \/ \E h \in Racers, s \in DeviceStates : set_export_probe(h, s)
  \/ \E h \in Racers, f \in OpenFaults : set_export_create(h, f)
  \/ \E h \in Racers : set_export_write_all(h)

SpecRace == InitRace /\ [][NextRace]_vars

\* the analog pins, and GPIO pins from both ends of the range
WrongKindSample == AinPinIds \cup {2, 69, 125}

\* GPIO handles made from analog pins, ADC handles made from every Pin
\* there is
InitPins ==
  /\ InitCommon
  /\ keepPrev = FALSE
  /\ logCap = 0
  /\ gpio = GPIO_new(69)
  /\ pwm = PWM_new(0, 0)
  /\ adc = ADC_new(AinOffset, F32Lit(FALSE, 0, 0))

NextPins ==
  \/ \E p \in WrongKindSample : GPIO_make(p)
  \/ \E p \in Pin, b \in Builds : ADC_make(p, F32Lit(FALSE, 0, 0), b)
  \/ ADC_read("none")

SpecPins == InitPins /\ [][NextPins]_vars

(***************************************************************************)
(* Properties                                                              *)
(***************************************************************************)
\* every open and transfer of the call went through
IoOk(c) == \A i \in 1..Len(c.io) : c.io[i].ok \/ c.io[i].call = "exists"

\* what the probe of a set_export call found
Found(c) == Probes(c)[1].ok

IsSetExport(c, who, state) == c.who = who /\ c.op = "set_export" /\ c.arg = state

\* the text is the decimal numeral of n, without sign or leading zeros
IsNumeralOf(text, n) ==
  /\ IsDecimal(text)
  /\ ParseDecimal(text) = n
  /\ Len(text) > 1 => text[1] # "0"

\* the one write of the id n to the control file
IsOneWrite(c, control, n) ==
  /\ Len(Writes(c)) = 1
  /\ Writes(c)[1].path = control
  /\ IsNumeralOf(Writes(c)[1].data, n)

ExportTwice(who) ==
  /\ IsSetExport(prev, who, "Exported")
  /\ IsSetExport(last, who, "Exported")
  /\ ~Found(prev)
  /\ IoOk(prev)

\* C1: set_export(Exported) on an unexported GPIO pin or PWM channel that
\* the kernel accepts, followed at once by set_export(Exported) on the same
\* handle: the first call writes the decimal id once to the export file of
\* its kind, the second finds the directory and writes nothing, both
\* return Ok.
C1_ExportTwiceWritesOnce ==
  /\ ExportTwice("gpio") /\ gpio.pin \in GpioPinIds =>
       /\ IsOneWrite(prev, <<"/sys/class/gpio/export">>, gpio.pin)
       /\ Found(last) /\ Writes(last) = <<>> /\ Opens(last) = <<>>
       /\ prev.res = "Ok" /\ last.res = "Ok"
  /\ ExportTwice("pwm") =>
       /\ IsOneWrite(prev, PwmExportFile(pwm.pwm_chip_num), pwm.pwm_num)
       /\ Found(last) /\ Writes(last) = <<>> /\ Opens(last) = <<>>
       /\ prev.res = "Ok" /\ last.res = "Ok"

C1_Witness ==
  /\ ExportTwice("gpio")
  /\ gpio.pin = 69
  /\ Len(Writes(prev)) = 1
  /\ Writes(last) = <<>>

\* C2: set_export(Unexported) that finds no directory opens neither control
\* file, writes nothing and returns Ok; one that finds the directory opens
\* the unexport file of its kind and, once it is open, writes the decimal
\* id to it exactly once.
C2_UnexportWrites ==
  /\ IsSetExport(last, "gpio", "Unexported") /\ gpio.pin \in GpioPinIds =>
       IF Found(last)
       THEN /\ Len(Opens(last)) = 1
            /\ Opens(last)[1].path = <<"/sys/class/gpio/unexport">>
            /\ Opens(last)[1].ok =>
                 IsOneWrite(last, <<"/sys/class/gpio/unexport">>, gpio.pin)
            /\ IoOk(last) => last.res = "Ok" /\ gpio.pin_path \notin dirs
       ELSE Opens(last) = <<>> /\ Writes(last) = <<>> /\ last.res = "Ok"
  /\ IsSetExport(last, "pwm", "Unexported") =>
       IF Found(last)
       THEN /\ Len(Opens(last)) = 1
            /\ Opens(last)[1].path = PwmUnexportFile(pwm.pwm_chip_num)
            /\ Opens(last)[1].ok =>
                 IsOneWrite(last, PwmUnexportFile(pwm.pwm_chip_num), pwm.pwm_num)
            /\ IoOk(last) => last.res = "Ok"
       ELSE Opens(last) = <<>> /\ Writes(last) = <<>> /\ last.res = "Ok"

\* an unexport that wrote, then an unexport that had nothing to do
C2_Witness ==
  /\ IsSetExport(prev, "pwm", "Unexported")
  /\ Found(prev) /\ IoOk(prev) /\ Len(Writes(prev)) = 1
  /\ IsSetExport(last, "pwm", "Unexported")
  /\ ~Found(last) /\ Writes(last) = <<>>
  /\ pwm.pwm_chip_num = 4

\* C3: whenever the state cached in the PWM handle is Enabled, its duty
\* cycle is at most its period.
C3_DutyWithinPeriod ==
  pwm.state = "Enabled" => pwm.duty_cycle <= pwm.period

\* x < y for f32 values that are not negative
F32Less(x, y) ==
  IF x.m = 0 THEN y.m # 0
  ELSE y.m # 0 /\ (x.e < y.e \/ (x.e = y.e /\ x.m < y.m))

IsNegative(x) == x.s = 1 /\ x.m # 0

Hundred == F32Lit(FALSE, 100, 0)

InPercentRange(x) == ~IsNegative(x) /\ ~F32Less(Hundred, x)

\* the odd integer n and the exponent k with |x| = n * 2^k
RECURSIVE OddPart(_, _)
OddPart(m, e) ==
  IF m = 0 THEN <<0, 0>>
  ELSE IF m % 2 = 0 THEN OddPart(m \div 2, e + 1) ELSE <<m, e>>

\* a / b rounded to the nearest integer, halves away from zero
RoundDiv(a, b) == (2 * a + b) \div (2 * b)

\* round(x / 100 * period) in exact arithmetic, for x >= 0
ExactDuty(x, period) ==
  LET ne == OddPart(x.m, x.e)
      num == IF ne[2] >= 0 THEN ne[1] * 2^(ne[2]) ELSE ne[1]
      den == IF ne[2] >= 0 THEN 100 ELSE 100 * 2^(-ne[2])
  IN num * (period \div den) + RoundDiv(num * (period % den), den)

IsPwmWrite(c) == c.who = "pwm" /\ c.op = "write"

\* C4: a write(p) that succeeds with p in [0, 100] on a handle whose period
\* P is positive caches duty_cycle = round(p / 100 * P), which is P for
\* p = 100 and 0 for p = 0.
C4_DutyIsRounded ==
  IsPwmWrite(last) /\ last.res = "Ok" /\ InPercentRange(last.arg) /\ pwm.period > 0 =>
    /\ pwm.duty_cycle = ExactDuty(last.arg, pwm.period)
    /\ last.arg = Hundred => pwm.duty_cycle = pwm.period
    /\ last.arg.m = 0 => pwm.duty_cycle = 0

\* C5: write(percentage) reads nothing and sends to the duty_cycle file the
\* numeral computed from the period of the last set_period that succeeded
\* on the handle (0 on a fresh handle), whatever the kernel's period file
\* holds: 50% after set_period(500000) sends "250000", any percentage on a
\* fresh handle sends "0".
C5_WriteUsesCachedPeriod ==
  IsPwmWrite(last) =>
    /\ Reads(last) = <<>>
    /\ \A i \in 1..Len(last.io) :
         last.io[i].path = PwmDutyCycleFile(pwm.pwm_chip_num, pwm.pwm_num)
    /\ pwm.period = lastSetPeriod
    /\ \A i \in 1..Len(Writes(last)) :
         /\ IsNumeralOf(Writes(last)[i].data, NewDutyCycle(last.arg, lastSetPeriod))
         /\ lastSetPeriod = 500000 /\ last.arg = F32Lit(FALSE, 50, 0) =>
              Writes(last)[i].data = <<"2", "5", "0", "0", "0", "0">>
         /\ lastSetPeriod = 0 => Writes(last)[i].data = <<"0">>

\* 50% of the 500000 ns set through the handle, while the kernel's period
\* file holds 100 ns
C5_Witness ==
  /\ IsPwmWrite(last) /\ last.res = "Ok"
  /\ last.arg = F32Lit(FALSE, 50, 0)
  /\ lastSetPeriod = 500000
  /\ PwmPeriodFile(0, 0) \in DOMAIN fs
  /\ fs[PwmPeriodFile(0, 0)] = <<"1", "0", "0", "\n">>
  /\ fs[PwmDutyCycleFile(0, 0)] = <<"2", "5", "0", "0", "0", "0">>

\* C6: a write(percentage) with percentage below 0 or above 100 returns an
\* error and leaves the cached duty cycle as it was.
C6_WriteRejectsOutOfRange ==
  [][IsPwmWrite(last') /\ last' # last /\ ~InPercentRange(last'.arg) =>
       last'.res = "Err" /\ pwm'.duty_cycle = pwm.duty_cycle]_vars

IsGpioRead(c) == c.who = "gpio" /\ c.op = "read"

\* the text is the character c, with nothing but whitespace around it
IsJust(text, c) ==
  \E k \in 1..Len(text) :
    /\ text[k] = c
    /\ \A j \in 1..Len(text) : j # k => text[j] \in Whitespace

\* C7: a read() whose read_file went through opens and reads the value file
\* once, and returns High exactly when the content is "1" up to surrounding
\* whitespace, Low exactly when it is "0", and an error otherwise.
C7_ReadMapsValue ==
  IsGpioRead(last) /\ IoOk(last) =>
    LET text == fs[GpioValueFile(gpio.pin_num)]
    IN /\ Len(Opens(last)) = 1 /\ Len(Reads(last)) = 1
       /\ (last.res = "Ok" /\ last.val = "High") <=> IsJust(text, "1")
       /\ (last.res = "Ok" /\ last.val = "Low") <=> IsJust(text, "0")
       /\ last.res = "Err" <=> ~IsJust(text, "1") /\ ~IsJust(text, "0")
       /\ last.res = "Err" => last.val = "none"

C7_Witness ==
  /\ IsGpioRead(last) /\ last.res = "Ok" /\ last.val = "High"
  /\ fs[GpioValueFile(gpio.pin_num)] = <<"1", "\n">>

\* C8: a read() whose value file cannot be opened, or whose read fails,
\* returns an error: it yields no level and does not abort the program.
C8_ReadFailureIsReturned ==
  IsGpioRead(last) /\ ~IoOk(last) =>
    last.res = "Err" /\ last.val = "none" /\ ~aborted

\* C9: a write(s) that succeeded, followed at once by a read() that went
\* through on the same pin, returns s.
C9_WriteThenRead ==
  /\ prev.who = "gpio" /\ prev.op = "write" /\ prev.res = "Ok"
  /\ IsGpioRead(last) /\ IoOk(last)
  => last.res = "Ok" /\ last.val = prev.arg

\* High read back where the file held a Low level before the write
C9_Witness ==
  /\ prev.who = "gpio" /\ prev.op = "write" /\ prev.res = "Ok" /\ prev.arg = "High"
  /\ IsGpioRead(last) /\ last.res = "Ok" /\ last.val = "High"
  /\ gpio.pin = 69

IsAdcRead(c) == c.who = "adc" /\ c.op \in {"read", "scaled_read"}

\* C10: a handle made from AIN_k has channel number k, and every file that
\* read() and scaled_read() touch is in_voltage{k}_raw, k a single digit.
C10_AdcChannelIsDecoded ==
  adc.pin \in AinPinIds =>
    /\ adc.adc_num = adc.pin - 1000
    /\ adc.adc_num \in 0..7
    /\ IsAdcRead(last) =>
         /\ last.io # <<>>
         /\ \A i \in 1..Len(last.io) :
              last.io[i].path =
                <<"/sys/bus/iio/devices/iio:device0/in_voltage",
                  <<DigitChars[adc.pin - 1000 + 1]>>, "_raw">>

C10_Witness ==
  /\ adc.pin = 1006
  /\ last.who = "adc" /\ last.op = "scaled_read" /\ last.res = "Ok"
  /\ Len(Reads(last)) = 1

\* the digits text[i..j] read as a decimal number
RECURSIVE DecimalValue(_, _, _)
DecimalValue(text, i, j) ==
  IF i > j THEN 0
  ELSE DigitValue(text[i]) * 10^(j - i) + DecimalValue(text, i + 1, j)

\* text is the digits text[i..j], with at most a '+' right before them and
\* nothing but whitespace around that
IsNumberAt(text, i, j) ==
  /\ i <= j
  /\ \A k \in 1..Len(text) :
       IF k \in i..j THEN IsDigit(text[k])
       ELSE text[k] \in Whitespace \/ (k = i - 1 /\ text[k] = "+")

IsNumber(text) == \E i, j \in 1..Len(text) : IsNumberAt(text, i, j)

NumberOf(text) ==
  LET ij == CHOOSE ij \in (1..Len(text)) \X (1..Len(text)) :
              IsNumberAt(text, ij[1], ij[2])
  IN DecimalValue(text, ij[1], ij[2])

\* the f32 x is exactly n times the f32 sf
IsProduct(x, n, sf) ==
  LET o == OddPart(sf.m, sf.e)
  IN IF n = 0 \/ sf.m = 0 THEN x.m = 0
     ELSE x.s = sf.s /\ OddPart(x.m, x.e) = OddPart(n * o[1], o[2])

AdcContent == fs[AdcRawFile(adc.adc_num)]

\* C11: a read() or scaled_read() whose read_file went through returns Ok
\* exactly when the raw file holds an unsigned decimal number (whitespace
\* around it aside) and an error otherwise; read() then returns that number
\* and scaled_read() that number times scaling_factor, which is 0 when the
\* scaling factor is 0.
C11_ScaledReadIsReadTimesFactor ==
  IsAdcRead(last) /\ IoOk(last) =>
    /\ last.res = "Ok" <=> IsNumber(AdcContent)
    /\ last.res = "Err" <=> ~IsNumber(AdcContent)
    /\ last.res = "Err" => last.val = "none"
    /\ last.res = "Ok" /\ last.op = "read" => last.val = NumberOf(AdcContent)
    /\ last.res = "Ok" /\ last.op = "scaled_read" =>
         /\ IsProduct(last.val, NumberOf(AdcContent), adc.scaling_factor)
         /\ adc.scaling_factor.m = 0 => last.val.m = 0

\* raw 11 scaled by 0.5 is 5.5
C11_Witness ==
  /\ last.who = "adc" /\ last.op = "scaled_read" /\ last.res = "Ok"
  /\ AdcContent = <<"1", "1">>
  /\ adc.scaling_factor = F32Lit(FALSE, 1, 1)
  /\ last.val = F32Lit(FALSE, 11, 1)

\* content that is no number: both calls fail
C11_WitnessMalformed ==
  /\ IsAdcRead(last) /\ IoOk(last) /\ last.res = "Err"
  /\ AdcContent = <<"1", "x">>

IsReadWrite(c) == c.who = "spi" /\ c.op = "spi_ioc_transfer::read_write"

Mismatched(c) == Len(c.arg[1]) # Len(c.arg[2])

\* C12: spi_ioc_transfer::read_write with buffers of different lengths
\* fails on the spot: it panics on its assertion, makes no transfer record
\* and issues no ioctl, and none is issued afterwards; every read_write
\* record that exists has len equal to the length of both of its buffers.
C12_ReadWriteAssertsEqualLengths ==
  [][/\ transfer'.kind = "read_write" =>
          /\ transfer'.len = Len(transfer'.tx_buf)
          /\ transfer'.len = Len(transfer'.rx_buf)
     /\ IsReadWrite(last') /\ Mismatched(last') =>
          /\ last'.res = "Panic" /\ aborted'
          /\ last'.io = <<>>
          /\ transfer' = transfer /\ dev' = dev
     /\ ~aborted]_vars

\* tx of two bytes against rx of one
C12_Witness ==
  /\ IsReadWrite(last) /\ last.res = "Panic" /\ aborted
  /\ Len(last.arg[1]) = 2 /\ Len(last.arg[2]) = 1

IsSetMode(c) == c.who = "spi" /\ c.op = "set_mode"

\* bit k of n
Bit(n, k) == (n \div 2^k) % 2

HasBitAboveLow8(n) == \E k \in 8..30 : Bit(n, k) = 1

\* C13: set_mode(flags) issues exactly one ioctl: the 32-bit mode call
\* (number 5, u32) carrying all the bits when some bit above the low 8 is
\* set, otherwise the 8-bit mode call (number 1, u8) carrying the low 8
\* bits.
C13_ModeCallWidth ==
  IsSetMode(last) =>
    /\ Len(last.io) = 1 /\ Len(Ioctls(last)) = 1
    /\ last.io[1].path.dir = "write"
    /\ IF HasBitAboveLow8(last.arg)
       THEN /\ last.io[1].path.nr = 5 /\ last.io[1].path.size = 4
            /\ last.io[1].data = last.arg
       ELSE /\ last.io[1].path.nr = 1 /\ last.io[1].path.size = 1
            /\ last.io[1].data = last.arg
            /\ last.io[1].data < 256
    /\ last.res = "Ok" <=> last.io[1].ok

\* SPI_TX_DUAL alone goes through the 32-bit call
C13_Witness ==
  /\ IsSetMode(last) /\ last.res = "Ok"
  /\ last.arg = 256
  /\ last.io[1].path.nr = 5
  /\ dev.mode = 256

IsI2cWrite(c) == c.who = "i2c" /\ c.op = "write"

IsI2cRead(c) == c.who = "i2c" /\ c.op = "read"

\* the one control block the call dispatched
Block(c) == c.io[1].data

AllZero(block, n) == Len(block) = n /\ \A i \in 1..n : block[i] = 0

\* the call dispatched one block through the SMBus ioctl (0x0720)
OneSmbusCall(c) ==
  /\ Len(c.io) = 1 /\ c.io[1].call = "ioctl" /\ c.io[1].path = 1824
  /\ c.res = "Ok" <=> c.io[1].ok

\* C14 as stated: write(byte) dispatches one block with direction write,
\* command = byte, size 1 and a data pointer to a zeroed 34-byte buffer, as
\* read() does.
C14_WritePointsToZeroedBuffer ==
  IsI2cWrite(last) =>
    /\ OneSmbusCall(last)
    /\ Block(last).read_write = 0
    /\ Block(last).command = last.arg
    /\ Block(last).size = 1
    /\ ~Block(last).data.null
    /\ AllZero(Block(last).data.block, 34)

\* C14, amended: write(byte) dispatches one block with direction write,
\* command = byte, size 1 and a null data pointer; only read() points its
\* block at a zeroed 34-byte buffer.
C14_WriteCarriesByteInCommand ==
  /\ IsI2cWrite(last) =>
       /\ OneSmbusCall(last)
       /\ Block(last).read_write = 0
       /\ Block(last).command = last.arg
       /\ Block(last).size = 1
       /\ Block(last).data.null
  /\ IsI2cRead(last) =>
       /\ ~Block(last).data.null
       /\ AllZero(Block(last).data.block, 34)

\* write(1) after set_slave_address(0x45)
C14_Witness ==
  /\ prev.who = "i2c" /\ prev.op = "set_slave_address" /\ prev.arg = 69
  /\ prev.res = "Ok" /\ dev.slave = 69
  /\ IsI2cWrite(last) /\ last.res = "Ok" /\ last.arg = 1
  /\ Block(last).command = 1

\* C15: read() dispatches one block with direction read, command 0, size 1
\* and a zeroed 34-byte buffer, whatever an earlier read left behind; when
\* the call goes through it returns the byte the slave put in block[0],
\* when it fails it returns an error and no byte.
C15_ReadReturnsByteZero ==
  IsI2cRead(last) =>
    /\ OneSmbusCall(last)
    /\ Block(last).read_write = 1
    /\ Block(last).command = 0
    /\ Block(last).size = 1
    /\ ~Block(last).data.null
    /\ AllZero(Block(last).data.block, 34)
    /\ last.res = "Ok" =>
         /\ last.val = dev.block[1]
         /\ \A i \in 2..34 : dev.block[i] = 0
    /\ last.res = "Err" => last.val = "none" /\ AllZero(dev.block, 34)

\* a read of 7 right after a read of 255
C15_Witness ==
  /\ IsI2cRead(prev) /\ prev.res = "Ok" /\ prev.val = 255
  /\ IsI2cRead(last) /\ last.res = "Ok" /\ last.val = 7
  /\ dev.block[1] = 7

IsUartRead(c) == c.who = "uart" /\ c.op \in {"read_chars", "read_to_string"}

\* C16: a read_chars(n) or read_to_string(n) that returns Ok returns n
\* bytes: the first n that were waiting in the port, in order, which are
\* then gone from the port.
C16_ReadReturnsNBytes ==
  [][IsUartRead(last') /\ last'.res = "Ok" =>
       /\ Len(last'.val) = last'.arg
       /\ Len(dev.rxq) >= last'.arg
       /\ last'.val = SubSeq(dev.rxq, 1, last'.arg)
       /\ dev'.rxq = SubSeq(dev.rxq, last'.arg + 1, Len(dev.rxq))]_vars

\* C17: a write_file or read_file call, on a path or on an open File, whose
\* open, write or read failed returns an error and no string.
C17_NoSilentFailure ==
  last.who = "util" /\ ~IoOk(last) => last.res = "Err" /\ last.val = "none"

\* the call wrote the id n once to the control file, having probed first
ProbedThenWrote(c, found, control, n) ==
  /\ Len(Probes(c)) = 1 /\ c.io[1].call = "exists"
  /\ Found(c) = found
  /\ IsOneWrite(c, control, n)

\* C18: every set_export probes the directory anew: a set_export(Exported)
\* that follows another actor's unexport of the same pin or channel writes
\* the id to the export file again, also when the handle had exported it
\* before, and a set_export(Unexported) that follows another actor's export
\* writes the id to the unexport file.
C18_ExportStateIsProbed ==
  \A k \in 1..(Len(log) - 1) :
    /\ log[k] = Other("unexport") /\ IsSetExport(log[k + 1], "gpio", "Exported") =>
         ProbedThenWrote(log[k + 1], FALSE, GpioExportFile, gpio.pin_num)
    /\ log[k] = Other("export") /\ IsSetExport(log[k + 1], "gpio", "Unexported") =>
         ProbedThenWrote(log[k + 1], TRUE, GpioUnexportFile, gpio.pin_num)
    /\ log[k] = OtherPwm("unexport") /\ IsSetExport(log[k + 1], "pwm", "Exported") =>
         ProbedThenWrote(log[k + 1], FALSE, PwmExportFile(pwm.pwm_chip_num), pwm.pwm_num)
    /\ log[k] = OtherPwm("export") /\ IsSetExport(log[k + 1], "pwm", "Unexported") =>
         ProbedThenWrote(log[k + 1], TRUE, PwmUnexportFile(pwm.pwm_chip_num), pwm.pwm_num)

\* the handle exports, another actor unexports, the handle exports again
C18_Witness ==
  /\ Len(log) = 3
  /\ IsSetExport(log[1], "gpio", "Exported") /\ Len(Writes(log[1])) = 1
  /\ log[2] = Other("unexport")
  /\ IsSetExport(log[3], "gpio", "Exported") /\ Len(Writes(log[3])) = 1
  /\ Writes(log[3])[1].data = <<"6", "9">>

\* the writes of the calls of a history, in the order of the calls
RECURSIVE FlatWrites(_)
FlatWrites(l) == IF l = <<>> THEN <<>> ELSE Writes(Head(l)) \o FlatWrites(Tail(l))

PathAndData(ws) == [i \in 1..Len(ws) |-> <<ws[i].path, ws[i].data>>]

OpsOf(l) == [i \in 1..Len(l) |-> <<l[i].op, l[i].arg>>]

\* the last of the writes ws went to path p and carried data
LastWriteIs(ws, p, data) == ws # <<>> /\ ws[Len(ws)].path = p /\ ws[Len(ws)].data = data

\* the one write a call that returned Ok has made
WroteOnce(c, path, data) ==
  /\ Len(Opens(c)) = 1 /\ Len(Writes(c)) = 1
  /\ Writes(c)[1].path = path /\ Writes(c)[1].data = data /\ Writes(c)[1].ok

Blinker ==
  <<<<"set_export", "Exported">>, <<"set_direction", "Out">>, <<"write", "High">>,
    <<"write", "Low">>, <<"set_export", "Unexported">>>>

\* C20: each call of a GPIO handle that returned Ok and had something to
\* change has made exactly one write, to the file and with the text of that
\* call, before the next call starts: the file written last holds the text
\* of the last call, and on pin 69, starting unexported,
\* set_export(Exported), set_direction(Out), write(High), write(Low),
\* set_export(Unexported) write "69" to gpio/export, "out" to
\* gpio69/direction, "1" and then "0" to gpio69/value, "69" to
\* gpio/unexport, in this order.
C20_WritesFollowCalls ==
  /\ \A k \in 1..Len(log) :
       /\ log[k].who = "gpio" /\ log[k].res = "Ok"
       /\ log[k].op = "set_direction" =>
            WroteOnce(log[k], <<"/sys/class/gpio/gpio", <<"6", "9">>, "/direction">>,
                      IF log[k].arg = "Out" THEN <<"o", "u", "t">> ELSE <<"i", "n">>)
       /\ log[k].op = "write" =>
            WroteOnce(log[k], <<"/sys/class/gpio/gpio", <<"6", "9">>, "/value">>,
                      IF log[k].arg = "High" THEN <<"1">> ELSE <<"0">>)
       /\ log[k].op = "set_export" =>
            \/ Writes(log[k]) = <<>> /\ (Found(log[k]) <=> log[k].arg = "Exported")
            \/ /\ Len(Writes(log[k])) = 1 /\ Writes(log[k])[1].data = <<"6", "9">>
               /\ Writes(log[k])[1].path =
                    IF log[k].arg = "Exported" THEN <<"/sys/class/gpio/export">>
                    ELSE <<"/sys/class/gpio/unexport">>
  /\ \A p \in DOMAIN fs, t \in {<<"0">>, <<"1">>, <<"i", "n">>, <<"o", "u", "t">>} :
       LastWriteIs(FlatWrites(log), p, t) => fs[p] = t
  /\ OpsOf(log) = Blinker =>
       PathAndData(FlatWrites(log)) =
         << <<<<"/sys/class/gpio/export">>, <<"6", "9">>>>,
            <<<<"/sys/class/gpio/gpio", <<"6", "9">>, "/direction">>, <<"o", "u", "t">>>>,
            <<<<"/sys/class/gpio/gpio", <<"6", "9">>, "/value">>, <<"1">>>>,
            <<<<"/sys/class/gpio/gpio", <<"6", "9">>, "/value">>, <<"0">>>>,
            <<<<"/sys/class/gpio/unexport">>, <<"6", "9">>>> >>

\* the five calls of the scenario have returned
C20_Witness ==
  /\ OpsOf(log) = Blinker
  /\ Len(FlatWrites(log)) = 5
  /\ gpio.pin = 69 /\ dirs = {}

\* the step is the PWM call op and it returned Ok
PwmOk(c, op) == c.who = "pwm" /\ c.op = op /\ c.res = "Ok"

\* C19: a PWM setter that returns Ok changes the cached field it is about
\* and no other: set_period(ns) the period, to ns; set_state(s) the state,
\* to s; write and set_duty_cycle the duty cycle; set_export changes none.
\* A setter whose file could not be opened or written returns an error,
\* and a setter that returns an error leaves the three cached fields as
\* they were.
C19_SettersChangeOwnField ==
  [][LET c == last'
     IN c.who = "pwm" =>
          /\ PwmOk(c, "set_period") => pwm' = [pwm EXCEPT !.period = c.arg]
          /\ PwmOk(c, "set_state") => pwm' = [pwm EXCEPT !.state = c.arg]
          /\ PwmOk(c, "set_duty_cycle") => pwm' = [pwm EXCEPT !.duty_cycle = c.arg]
          /\ PwmOk(c, "write") =>
               pwm' = [pwm EXCEPT !.duty_cycle = pwm'.duty_cycle]
          /\ c.op = "set_export" => pwm' = pwm
          /\ ~IoOk(c) => c.res = "Err"
          /\ c.res = "Err" => pwm' = pwm]_vars

\* a period set on an enabled handle whose duty cycle stays as it was
C19_Witness ==
  /\ PwmOk(last, "set_period") /\ last.arg = 100
  /\ pwm.period = 100 /\ pwm.duty_cycle = 250000 /\ pwm.state = "Enabled"

\* the handles' operations that do I/O
HandleCall(c) == c.who \in {"gpio", "pwm", "adc", "i2c", "spi"} /\ c.io # <<>>

\* the write, read or control call of an operation, after its open
Transfers(c) ==
  SelectSeq(c.io, LAMBDA e : e.call \in {"write_all", "read_to_string", "ioctl"})

\* the position of the first event of the call that failed, 0 if none did
RECURSIVE FirstFailure(_, _)
FirstFailure(io, i) ==
  IF i > Len(io) THEN 0
  ELSE IF io[i].call # "exists" /\ ~io[i].ok THEN i
  ELSE FirstFailure(io, i + 1)

Closes(c) == SelectSeq(c.io, LAMBDA e : e.call = "close")

\* one open at most and one transfer at most, and nothing else but the
\* probe and the close
OneAttempt(c) ==
  /\ Len(Opens(c)) <= 1
  /\ Len(Transfers(c)) <= 1
  /\ Len(c.io) = Len(Probes(c)) + Len(Opens(c)) + Len(Transfers(c)) + Len(Closes(c))

\* after the event that failed the call only closes what it had opened
NothingAfterFailure(c) ==
  LET k == FirstFailure(c.io, 1)
  IN k # 0 => \A i \in (k + 1)..Len(c.io) : c.io[i].call = "close"

\* C21: nothing is retried: every operation of a handle makes one attempt
\* at most at its open and at its write, read or control call, and when
\* the attempt fails the operation issues no more I/O and returns an error.
C21_OneAttemptThenError ==
  HandleCall(last) =>
    /\ OneAttempt(last)
    /\ NothingAfterFailure(last)
    /\ FirstFailure(last.io, 1) # 0 => last.res = "Err"

\* the part of C21 that is about the I/O alone
C21_OneAttempt ==
  HandleCall(last) => OneAttempt(last) /\ NothingAfterFailure(last)

SysfsHandles == {"gpio", "pwm", "adc"}

DeviceHandles == {"i2c", "spi"}

HandleOf(who) == IF who = "i2c" THEN i2c ELSE spi

\* the device file of the handle that is there
DevFileOf(who) ==
  IF who = "i2c" THEN I2cDevFile(i2c.i2c_num) ELSE SpiDevFile(spi.spi_num)

\* every open of the call that went through is followed, in the call, by
\* the close of the same path
Balanced(c) ==
  \A i \in 1..Len(c.io) :
    c.io[i].call \in {"create", "open", "open_rw"} /\ c.io[i].ok =>
      \E j \in (i + 1)..Len(c.io) :
        c.io[j].call = "close" /\ c.io[j].path = c.io[i].path

OpensOrCloses(c) ==
  \E i \in 1..Len(c.io) : c.io[i].call \in {"create", "open", "open_rw", "close"}

\* C22: making a GPIO, PWM or ADC handle does no I/O, and between calls
\* these handles hold no descriptor: each call closes what it opened,
\* whether it succeeds or fails.  An I2C or SPI handle, while it is there,
\* holds exactly one read-write descriptor on its device file, opened by
\* new and closed when the handle is dropped, and no operation opens or
\* closes anything; new returns an error and makes no handle when the
\* device cannot be opened.
C22_DescriptorOwnership ==
  /\ \A d \in fds : d.who \notin SysfsHandles
  /\ last.who \in SysfsHandles =>
       /\ Balanced(last)
       /\ last.op = "new" => last.io = <<>> /\ last.res = "Ok"
  /\ \A who \in DeviceHandles :
       {d \in fds : d.who = who} =
         IF HandleOf(who) = NoHandle THEN {}
         ELSE {Fd(who, DevFileOf(who), "rw")}
  /\ last.who \in DeviceHandles =>
       /\ last.op = "new" =>
            /\ Len(last.io) = 1 /\ last.io[1].call = "open_rw"
            /\ last.res = (IF last.io[1].ok THEN "Ok" ELSE "Err")
            /\ last.res = "Err" => HandleOf(last.who) = NoHandle
            /\ last.res = "Ok" => last.io[1].path = DevFileOf(last.who)
       /\ last.op \notin {"new", "drop"} => ~OpensOrCloses(last)

\* an I2C read has failed on a handle that is there, after calls on the
\* sysfs handles exported the pin and after a failed SPI::new
C22_Witness ==
  /\ last.who = "i2c" /\ last.op = "read" /\ last.res = "Err"
  /\ fds = {Fd("i2c", <<"/dev/i2c-", <<"2">>>>, "rw")}
  /\ spi = NoHandle
  /\ dirs # {}

\* what the probe of the call calls for: a write, or nothing
ProbeWants(c) ==
  \/ c.arg = "Exported" /\ ~Found(c)
  \/ c.arg = "Unexported" /\ Found(c)

\* two calls of different handles with the same argument and the same
\* probe result have both written: the first was taken by the kernel, the
\* second came when the state was no longer what its probe had seen
RacedOn(arg, found) ==
  \E i, j \in 1..Len(log) :
    /\ i < j /\ log[i].who # log[j].who
    /\ log[i].arg = arg /\ log[j].arg = arg
    /\ Found(log[i]) = found /\ Found(log[j]) = found
    /\ Len(Writes(log[i])) = 1 /\ Len(Writes(log[j])) = 1
    /\ Writes(log[i])[1].path = Writes(log[j])[1].path
    /\ Writes(log[i])[1].ok /\ ~Writes(log[j])[1].ok

\* C23: with two handles on one pin or channel, set_export is a probe and
\* then a write with nothing that ties them together: every call acts on
\* what its own probe saw, and writes the id to the control file whenever
\* the probe called for it and the file could be opened, whatever the other
\* handle did in between.
C23_WriteActsOnOwnProbe ==
  \A k \in 1..Len(log) :
    LET c == log[k]
    IN /\ c.who \in Racers /\ c.op = "set_export"
       /\ Len(Probes(c)) = 1 /\ c.io[1].call = "exists"
       /\ IF ~ProbeWants(c)
          THEN Len(c.io) = 1 /\ c.res = "Ok"
          ELSE /\ Len(Opens(c)) = 1
               /\ Opens(c)[1].path \in
                    (IF c.arg = "Exported"
                     THEN {<<"/sys/class/gpio/export">>,
                           <<"/sys/class/pwm/pwmchip", <<"0">>, "/export">>}
                     ELSE {<<"/sys/class/gpio/unexport">>,
                           <<"/sys/class/pwm/pwmchip", <<"0">>, "/unexport">>})
               /\ IF Opens(c)[1].ok
                  THEN /\ Len(Writes(c)) = 1
                       /\ Writes(c)[1].path = Opens(c)[1].path
                       /\ Writes(c)[1].data \in {<<"6", "9">>, <<"1">>}
                       /\ c.res = (IF Writes(c)[1].ok THEN "Ok" ELSE "Err")
                  ELSE Writes(c) = <<>> /\ c.res = "Err"

\* both handles saw the pin unexported and both wrote to export, and later
\* both saw it exported and both wrote to unexport, the unexport of the
\* one landing between the probe and the write of the other
C23_Witness == RacedOn("Exported", FALSE) /\ RacedOn("Unexported", TRUE)

====
